---------------------------- MODULE Spec2Model ----------------------------
(***************************************************************************)
(* A model of jellyfin-renamer.py: the TMDB resolver with its caches and   *)
(* negative-lookup set, the path parser, and the subtitle name matcher.    *)
(*                                                                         *)
(* Python values are modelled as follows.                                  *)
(*   str            a sequence of one-character strings                    *)
(*   Optional[x]    None is <<>>, a present value x is <<x>>               *)
(*   dict           a function whose DOMAIN is the set of keys             *)
(*   list           a sequence                                             *)
(***************************************************************************)
EXTENDS Integers, Sequences, FiniteSets, TLC

None == <<>>
Some(x) == <<x>>
Val(o) == o[1]

\* A str literal as the sequence of its characters.
Str(s) == [i \in 1..Len(s) |-> SubSeq(s, i, i)]

(***************************************************************************)
(* Strings                                                                 *)
(***************************************************************************)
DigitChars == <<"0", "1", "2", "3", "4", "5", "6", "7", "8", "9">>

IsDigit(c) == \E i \in 1..Len(DigitChars) : DigitChars[i] = c

DigitVal(c) == (CHOOSE i \in 1..Len(DigitChars) : DigitChars[i] = c) - 1

\* s[:n]
Take(s, n) == SubSeq(s, 1, IF n < Len(s) THEN n ELSE Len(s))

\* s[n:] (0-based n, as in Python)
Drop(s, n) == SubSeq(s, n + 1, Len(s))

RECURSIVE IntToStr(_)
\* str(n) for an int n >= 0
IntToStr(n) ==
    IF n < 10 THEN <<DigitChars[n + 1]>>
    ELSE IntToStr(n \div 10) \o <<DigitChars[(n % 10) + 1]>>

RECURSIVE DigitsToInt(_)
DigitsToInt(s) ==
    IF s = <<>> THEN 0
    ELSE 10 * DigitsToInt(SubSeq(s, 1, Len(s) - 1)) + DigitVal(s[Len(s)])

AllDigits(s) == s # <<>> /\ \A i \in 1..Len(s) : IsDigit(s[i])


(***************************************************************************)
(* The remote catalog (TMDB) as the resolver sees it                       *)
(***************************************************************************)
Titles == {"A", "B"}

MediaTypes == {"show", "movie"}

Date2019 == Str("2019-05-01")

Date2020 == Str("2020-11-30")

\* The genre table the catalog serves (genre id -> genre name).
CatalogGenres == [g \in {18} |-> "Drama"]

\* One entry of the "results" list of a search response.  For a show the
\* keys are id, name, genre_ids, first_air_date; for a movie id, title,
\* genre_ids, release_date: here name and date stand for both.  A key the
\* response lacks is None.
Raw(id, name, genre_ids, date) ==
    [id |-> Some(id), name |-> name, genre_ids |-> Some(genre_ids), date |-> Some(date)]

\* The "results" lists the catalog answers a search with: of every length up
\* to three, with no, one (first, second, third) and two entries of the
\* year 2020, with an entry that lacks its name, and with one that has a
\* genre.
RawLists ==
    { <<>>,
      <<Raw(3, Some("A"), <<>>, Date2020)>>,
      <<Raw(1, Some("A"), <<>>, Date2019), Raw(3, Some("B"), <<>>, Date2020)>>,
      <<Raw(3, Some("A"), <<>>, Date2020), Raw(1, Some("A"), <<>>, Date2019)>>,
      <<Raw(2, Some("B"), <<18>>, Date2020), Raw(3, Some("A"), <<>>, Date2020)>>,
      <<Raw(4, None, <<>>, Date2019)>>,
      <<Raw(1, Some("A"), <<>>, Date2019), Raw(5, Some("A"), <<>>, Date2019)>>,
      <<Raw(1, Some("A"), <<>>, Date2019), Raw(5, Some("A"), <<>>, Date2019),
        Raw(3, Some("A"), <<>>, Date2020)>> }

\* What requests.get + json.loads can come to: a body, or one of the failures.
FailedResponses ==
    {[outcome |-> o, body |-> None] : o \in {"connection_error", "error_field"}}

SearchResponses ==
    FailedResponses
    \cup {[outcome |-> "ok", body |-> Some([results |-> None])]}
    \cup {[outcome |-> "ok", body |-> Some([results |-> Some(l)])] : l \in RawLists}

GenreResponses ==
    FailedResponses
    \cup {[outcome |-> "ok", body |-> Some([genres |-> None])],
          [outcome |-> "ok", body |-> Some([genres |-> Some(CatalogGenres)])]}

\* /tv/<id> and /movie/<id>: the object as documented, or one that lacks
\* its id and its date.
ObjectResponses ==
    FailedResponses
    \cup {[outcome |-> "ok", body |-> Some([has_id |-> TRUE, date |-> Some(Date2020)])],
          [outcome |-> "ok", body |-> Some([has_id |-> FALSE, date |-> None])]}

\* /tv/<id>/season/<n>: a season with one episode, number 2, named "N".
SeasonResponses ==
    FailedResponses
    \cup {[outcome |-> "ok",
           body |-> Some([episodes |-> <<[episode_number |-> 2, name |-> Str("N")]>>])]}

\* A remote request as it is issued: which endpoint, for which title, whether
\* the title was in tmdb_not_found at that moment, and whether it was answered.
Request(api, title, S, resp) ==
    [api |-> api, title |-> title, in_not_found |-> title \in S.tmdb_not_found,
     ok |-> resp.outcome = "ok"]

do_authed_get_and_handle_err(resp) ==
    IF resp.outcome = "ok" THEN resp.body ELSE None

(***************************************************************************)
(* A function of the resolver is an operator from the store S (the global  *)
(* caches) and its arguments to the SET of ways the call can end, one for  *)
(* each answer of the catalog to each request the call issues.             *)
(***************************************************************************)
\* How a call ends: it returns, raises, or waits on input().  list is the
\* candidate list the disambiguation worked on and stored the id it put
\* into an id cache (both for the record of the call).
Return(S, ret, reqs) ==
    [status |-> "return", st |-> S, ret |-> ret, reqs |-> reqs, list |-> <<>>,
     stored |-> None]

Raise(S, reqs) ==
    [status |-> "raise", st |-> S, ret |-> None, reqs |-> reqs, list |-> <<>>,
     stored |-> None]

Input(S, reqs, list) ==
    [status |-> "input", st |-> S, ret |-> None, reqs |-> reqs, list |-> list,
     stored |-> None]

query_all_genres_got(S, r1, r2) ==
    LET movie_genres == do_authed_get_and_handle_err(r1)
        show_genres == do_authed_get_and_handle_err(r2)
        reqs == <<Request("genre_movie", "", S, r1), Request("genre_tv", "", S, r2)>>
    IN  IF movie_genres = None \/ show_genres = None THEN Return(S, None, reqs)
        ELSE IF Val(movie_genres).genres = None \/ Val(show_genres).genres = None
        THEN Return(S, None, reqs)
        ELSE Return([S EXCEPT !.tmdb_genres =
                                Val(Val(show_genres).genres) @@ Val(Val(movie_genres).genres)],
                    None, reqs)

query_all_genres(S) ==
    IF DOMAIN S.tmdb_genres # {} THEN {Return(S, None, <<>>)}
    ELSE {query_all_genres_got(S, r1, r2) : r1 \in GenreResponses, r2 \in GenreResponses}

\* (a resolver that never consults tmdb_not_found)
NotFoundHit_never(name, not_found) == FALSE

\* "name in tmdb_not_found", the test every function of the resolver makes
\* before it issues a request.
NotFoundHit(name, not_found) == name \in not_found

RECURSIVE parse_results(_, _, _, _)
\* The loop over obj["results"]: name is rebound by every entry, entries
\* lacking a key are skipped, and tmdb_genres[genre_id] raises KeyError.
parse_results(results, genres, name, ret) ==
    IF results = <<>> THEN [raised |-> FALSE, name |-> name, ret |-> ret]
    ELSE LET r == Head(results)
         IN  IF r.id = None \/ r.name = None \/ r.genre_ids = None \/ r.date = None
             THEN parse_results(Tail(results), genres, r.name, ret)
             ELSE IF \E i \in 1..Len(Val(r.genre_ids)) :
                        Val(r.genre_ids)[i] \notin DOMAIN genres
             THEN [raised |-> TRUE, name |-> r.name, ret |-> ret]
             ELSE parse_results(Tail(results), genres, r.name,
                                Append(ret, [id |-> Val(r.id), date |-> Val(r.date)]))

\* query_show from the answer to its request on.
query_show_got(S, name, resp) ==
    LET obj == do_authed_get_and_handle_err(resp)
        reqs == <<Request("search_tv", name, S, resp)>>
        miss == [S EXCEPT !.tmdb_not_found = @ \cup {name}]
    IN  IF obj = None THEN Return(miss, <<>>, reqs)
        ELSE IF Val(obj).results = None THEN Return(miss, <<>>, reqs)
        ELSE LET p == parse_results(Val(Val(obj).results), S.tmdb_genres, Some(name), <<>>)
             IN  IF p.raised THEN Raise(S, reqs)
                 ELSE Return([S EXCEPT !.tmdb_show_name_cache = (p.name :> p.ret) @@ @],
                             p.ret, reqs)

query_show(S, name, year) ==
    IF NotFoundHit(name, S.tmdb_not_found) THEN {Return(S, <<>>, <<>>)}
    ELSE IF Some(name) \in DOMAIN S.tmdb_show_name_cache
    THEN {Return(S, S.tmdb_show_name_cache[Some(name)], <<>>)}
    ELSE {query_show_got(S, name, resp) : resp \in SearchResponses}

\* query_movie from the answer to its request on.
query_movie_got(S, title, resp) ==
    LET obj == do_authed_get_and_handle_err(resp)
        reqs == <<Request("search_movie", title, S, resp)>>
        miss == [S EXCEPT !.tmdb_not_found = @ \cup {title}]
    IN  IF obj = None THEN Return(miss, <<>>, reqs)
        ELSE IF Val(obj).results = None THEN Return(miss, <<>>, reqs)
        ELSE LET p == parse_results(Val(Val(obj).results), S.tmdb_genres, Some(title), <<>>)
             IN  IF p.raised THEN Raise(S, reqs)
                 ELSE Return([S EXCEPT !.tmdb_movie_name_cache = (p.name :> p.ret) @@ @],
                             p.ret, reqs)

query_movie(S, title, year) ==
    IF NotFoundHit(title, S.tmdb_not_found) THEN {Return(S, <<>>, <<>>)}
    ELSE IF Some(title) \in DOMAIN S.tmdb_movie_name_cache
    THEN {Return(S, S.tmdb_movie_name_cache[Some(title)], <<>>)}
    ELSE {query_movie_got(S, title, resp) : resp \in SearchResponses}

(***************************************************************************)
(* query_tmdb_id                                                           *)
(***************************************************************************)
\* The 1-based positions of the candidates whose date[:4] == str(show.year).
YearMatches(list, year) ==
    {i \in 1..Len(list) : year # None /\ Take(list[i].date, 4) = IntToStr(Val(year))}

SetMax(s) == CHOOSE x \in s : \A y \in s : y <= x

\* (select_id without its no_interact branch)
select_id_always_interactive(list, year, nointeract) ==
    LET matches == YearMatches(list, year)
        id0 == IF matches = {} THEN -1 ELSE list[SetMax(matches)].id
    IN  IF (id0 = -1 \/ Cardinality(matches) > 1) /\ Len(list) > 1
        THEN [prompt |-> TRUE, id |-> id0]
        ELSE [prompt |-> FALSE, id |-> list[1].id]

\* (select_id that prompts only when no candidate has the year)
select_id_prompt_on_none_only(list, year, nointeract) ==
    LET matches == YearMatches(list, year)
        id0 == IF matches = {} THEN -1 ELSE list[SetMax(matches)].id
        auto == nointeract /\ Len(list) > 1
        id1 == IF auto THEN list[1].id ELSE id0
    IN  IF id1 = -1 /\ Len(list) > 1
        THEN [prompt |-> TRUE, id |-> id1]
        ELSE [prompt |-> FALSE, id |-> list[1].id]

\* The disambiguation of a non-empty candidate list, up to the point where
\* the code either has its id or starts to prompt.
select_id(list, year, nointeract) ==
    LET matches == YearMatches(list, year)
        id0 == IF matches = {} THEN -1 ELSE list[SetMax(matches)].id
        found0 == Cardinality(matches)
        auto == nointeract /\ Len(list) > 1
        id1 == IF auto THEN list[1].id ELSE id0
        found1 == IF auto THEN 0 ELSE found0
    IN  IF (id1 = -1 \/ found1 > 1) /\ Len(list) > 1
        THEN [prompt |-> TRUE, id |-> id1]
        ELSE [prompt |-> FALSE, id |-> list[1].id]

\* int(s) of the text typed at the prompt: None stands for ValueError.
ParseInt(s) ==
    IF AllDigits(s) THEN Some(DigitsToInt(s))
    ELSE IF Len(s) > 1 /\ s[1] = "-" /\ AllDigits(Tail(s)) THEN Some(0 - DigitsToInt(Tail(s)))
    ELSE None

\* selection = int(input("Selection: ")) - 1, and its range check: the
\* 0-based index chosen, or None when the loop prompts again.
read_selection(text, n) ==
    LET v == ParseInt(text)
    IN  IF v = None THEN None
        ELSE IF Val(v) - 1 < 0 \/ Val(v) - 1 >= n THEN None
        ELSE Some(Val(v) - 1)

\* tmdb_show_id_cache[show.title] = id / tmdb_movie_id_cache[show.title] = id,
\* then the return.
store_id(S, show, id, reqs, list) ==
    LET S2 == IF show.media_type = "show"
              THEN [S EXCEPT !.tmdb_show_id_cache = (show.title :> id) @@ @]
              ELSE [S EXCEPT !.tmdb_movie_id_cache = (show.title :> id) @@ @]
    IN  [Return(S2, IF id = -1 THEN None ELSE Some(id), reqs)
            EXCEPT !.stored = Some(id), !.list = list]

\* query_tmdb_id from the return of query_show / query_movie (q) on.
query_tmdb_id_got(q, show, nointeract) ==
    IF q.status = "raise" THEN q
    ELSE IF Len(q.ret) = 0 THEN Return(q.st, None, q.reqs)
    ELSE LET sel == select_id(q.ret, show.year, nointeract)
         IN  IF sel.prompt THEN Input(q.st, q.reqs, q.ret)
             ELSE store_id(q.st, show, sel.id, q.reqs, q.ret)

\* (the cache that no call for a show writes)
IdCacheRead_movie(S, show) == S.tmdb_movie_id_cache

\* The id cache a call reads first.
IdCacheRead(S, show) == S.tmdb_show_id_cache

query_tmdb_id(S, show, nointeract) ==
    IF show.title \in DOMAIN IdCacheRead(S, show)
    THEN {Return(S, Some(IdCacheRead(S, show)[show.title]), <<>>)}
    ELSE IF NotFoundHit(show.title, S.tmdb_not_found) THEN {Return(S, None, <<>>)}
    ELSE {query_tmdb_id_got(q, show, nointeract) :
            q \in IF show.media_type = "show"
                  THEN query_show(S, show.title, show.year)
                  ELSE query_movie(S, show.title, show.year)}

\* One turn of the "while True" loop around input().
query_tmdb_id_input(S, show, list, reqs, text) ==
    LET selection == read_selection(text, Len(list))
    IN  IF selection = None THEN Input(S, reqs, list)
        ELSE store_id(S, show, list[Val(selection) + 1].id, reqs, list)

(***************************************************************************)
(* query_tmdb_details                                                      *)
(***************************************************************************)
SeasonKey(show) == <<show.title, show.season>>

\* For a show: from the answers to the two requests on.
query_tmdb_details_tv_got(S, show, id, reqs, robj, rseason) ==
    LET show_obj == do_authed_get_and_handle_err(robj)
        season_obj == do_authed_get_and_handle_err(rseason)
        reqs2 == reqs \o <<Request("tv", show.title, S, robj),
                           Request("season", show.title, S, rseason)>>
        merged == [episodes |-> Val(season_obj).episodes,
                   first_air_date |-> IF show_obj # None THEN Val(show_obj).date ELSE None,
                   show_id |-> IF show_obj # None /\ Val(show_obj).has_id THEN Some(id) ELSE None]
    IN  IF season_obj = None
        THEN Return([S EXCEPT !.tmdb_not_found = @ \cup {show.title}], None, reqs2)
        ELSE Return([S EXCEPT !.tmdb_details_tv_season_cache = (SeasonKey(show) :> merged) @@ @],
                    Some(merged), reqs2)

\* For a movie: from the answer to the request on.
query_tmdb_details_movie_got(S, show, id, reqs, robj) ==
    LET movie_obj == do_authed_get_and_handle_err(robj)
        reqs2 == reqs \o <<Request("movie", show.title, S, robj)>>
        obj == [release_date |-> Val(movie_obj).date,
                id |-> IF Val(movie_obj).has_id THEN Some(id) ELSE None]
    IN  IF movie_obj = None
        THEN Return([S EXCEPT !.tmdb_not_found = @ \cup {show.title}], None, reqs2)
        ELSE Return([S EXCEPT !.tmdb_details_movie_cache = (show.title :> obj) @@ @],
                    Some(obj), reqs2)

\* query_tmdb_details from the return of query_tmdb_id (i) on.
query_tmdb_details_fetch(i, show) ==
    IF i.status # "return" THEN {i}
    ELSE IF i.ret = None THEN {i}
    ELSE LET ends == IF show.media_type = "show"
                     THEN {query_tmdb_details_tv_got(i.st, show, Val(i.ret), i.reqs, robj, rseason) :
                             robj \in ObjectResponses, rseason \in SeasonResponses}
                     ELSE {query_tmdb_details_movie_got(i.st, show, Val(i.ret), i.reqs, robj) :
                             robj \in ObjectResponses}
         IN  {[r EXCEPT !.list = i.list, !.stored = i.stored] : r \in ends}

query_tmdb_details(S, show, nointeract) ==
    IF show.media_type = "show"
    THEN IF NotFoundHit(show.title, S.tmdb_not_found) THEN {Return(S, None, <<>>)}
         ELSE IF SeasonKey(show) \in DOMAIN S.tmdb_details_tv_season_cache
         THEN {Return(S, Some(S.tmdb_details_tv_season_cache[SeasonKey(show)]), <<>>)}
         ELSE UNION {query_tmdb_details_fetch(i, show) : i \in query_tmdb_id(S, show, nointeract)}
    ELSE IF show.title \in DOMAIN S.tmdb_details_movie_cache
         THEN {Return(S, Some(S.tmdb_details_movie_cache[show.title]), <<>>)}
         ELSE IF NotFoundHit(show.title, S.tmdb_not_found) THEN {Return(S, None, <<>>)}
         ELSE UNION {query_tmdb_details_fetch(i, show) : i \in query_tmdb_id(S, show, nointeract)}

(***************************************************************************)
(* State                                                                   *)
(***************************************************************************)
VARIABLES
    no_interact,                    \* --no-interact
    tmdb_genres,
    tmdb_not_found,
    tmdb_show_name_cache,
    tmdb_movie_name_cache,
    tmdb_show_id_cache,
    tmdb_movie_id_cache,
    tmdb_details_tv_season_cache,
    tmdb_details_movie_cache,
    pc,          \* "idle", "input" (blocked in input()), "returned", "crashed"
    frame,       \* the call that is blocked in input(), or None
    last,        \* the call that has just ended (pc "returned" or "crashed"), or None
    selected,    \* (media type, title) -> the id query_tmdb_id selected first for it
    ncalls,      \* calls made so far
    media_type,  \* args.media
    shows,       \* the records discovered
    queried,     \* how many of them the resolve loop has taken up
    new_paths,   \* output path -> (index in shows of) the record that goes there
    new_path,    \* the output path of the record resolved last
    remove_parts,      \* the deny-list (global remove_parts)
    extra_disallowed,  \* the text of extra_disallowed.txt, None when there is no such file
    path,        \* the path parse_show_or_movie_path was last called with, or None
    parsed,      \* None before the first call, then Some(what the last call returned)
    parts_left,  \* the local parts of a call under way: the parts still to take up
    pass_state,  \* None, or Some(the other locals of the call under way, and show)
    sub_show,    \* the record process_sub_names was called with, or None
    new_video_name,    \* and its second argument
    new_subs,    \* None before the call, then Some(what it returned)
    widthheight, \* what ffprobe_width_and_height answers for the file, or None
    probed,      \* whether ffprobe_width_and_height has been called
    walked,      \* the files os.walk yields below the directory of the file
    now,         \* time.time() in seconds
    launches,    \* how many times the program has been started
    auth_key,    \* whether a catalog key is found
    argv_no_cache,     \* whether --no-cache is on the command line
    no_caches,   \* the global: False until the arguments are parsed
    cache_time,  \* the global: cache file -> time it was written
    disk,        \* the cache files: files (name -> content), and when each entry
                 \* of files["tmdb_show_name.cache.pickle"] was fetched
    loaded,      \* whether load_caches has been called in this process
    fetched_at,  \* key of tmdb_show_name_cache -> time its list was fetched
    dry_run,     \* --dry-run
    renamed,     \* the counter of the rename loop
    moves        \* the files moved (or, in a dry run, written): record and target

resolverVars ==
    <<no_interact, tmdb_genres, tmdb_not_found, tmdb_show_name_cache,
      tmdb_movie_name_cache, tmdb_show_id_cache, tmdb_movie_id_cache,
      tmdb_details_tv_season_cache, tmdb_details_movie_cache,
      pc, frame, last, selected, ncalls>>

mainVars == <<media_type, shows, queried, new_paths, new_path>>

passVars == <<parts_left, pass_state>>

parserVars == <<remove_parts, extra_disallowed, path, parsed, passVars>>

subsVars == <<sub_show, new_video_name, new_subs>>

discoverVars == <<widthheight, probed, walked>>

processVars == <<now, launches, auth_key, argv_no_cache, no_caches, cache_time, disk, loaded,
                 fetched_at>>

renameVars == <<dry_run, renamed, moves>>

runVars == <<discoverVars, processVars, renameVars>>

vars == <<resolverVars, mainVars, parserVars, subsVars, runVars>>

\* Calls made in one behaviour.
MaxCalls == 2

Store ==
    [tmdb_genres |-> tmdb_genres,
     tmdb_not_found |-> tmdb_not_found,
     tmdb_show_name_cache |-> tmdb_show_name_cache,
     tmdb_movie_name_cache |-> tmdb_movie_name_cache,
     tmdb_show_id_cache |-> tmdb_show_id_cache,
     tmdb_movie_id_cache |-> tmdb_movie_id_cache,
     tmdb_details_tv_season_cache |-> tmdb_details_tv_season_cache,
     tmdb_details_movie_cache |-> tmdb_details_movie_cache]

SetStore(S) ==
    /\ tmdb_genres' = S.tmdb_genres
    /\ tmdb_not_found' = S.tmdb_not_found
    /\ tmdb_show_name_cache' = S.tmdb_show_name_cache
    /\ tmdb_movie_name_cache' = S.tmdb_movie_name_cache
    /\ tmdb_show_id_cache' = S.tmdb_show_id_cache
    /\ tmdb_movie_id_cache' = S.tmdb_movie_id_cache
    /\ tmdb_details_tv_season_cache' = S.tmdb_details_tv_season_cache
    /\ tmdb_details_movie_cache' = S.tmdb_details_movie_cache

Years == {None, Some(2020)}

\* The records the resolver is called with (the fields it reads).
\* A with and without its year, B with its year; a season for shows only
\* (the season of a movie record is read nowhere).
Shows ==
    {sh \in [media_type : MediaTypes, title : Titles, year : Years, season : {None, Some(1)}] :
        /\ sh.season # None => sh.media_type = "show"
        /\ sh.title = "B" => sh.year # None}

\* query_tmdb_id does not read the season.
IdShows == {sh \in Shows : sh.season = None}

\* What can be typed at the prompt: numbers from 0 to one more than the
\* longest candidate list, and lines that are no number.
InputTexts ==
    {IntToStr(n) : n \in 0..4} \cup {<<>>, <<"x">>, <<"-", "1">>}

\* The caches as the module creates them.
InitStore ==
    /\ tmdb_genres = <<>>
    /\ tmdb_not_found = {}
    /\ tmdb_show_name_cache = <<>>
    /\ tmdb_movie_name_cache = <<>>
    /\ tmdb_show_id_cache = <<>>
    /\ tmdb_movie_id_cache = <<>>
    /\ tmdb_details_tv_season_cache = <<>>
    /\ tmdb_details_movie_cache = <<>>

InitResolver ==
    /\ no_interact \in BOOLEAN
    /\ InitStore
    /\ pc = "idle"
    /\ frame = None
    /\ last = None
    /\ selected = <<>>
    /\ ncalls = 0

\* __main__ has not run.
InitMainIdle ==
    /\ media_type = None
    /\ shows = <<>>
    /\ queried = 0
    /\ new_paths = <<>>
    /\ new_path = None

\* No call of parse_show_or_movie_path is under way.
InitPassIdle ==
    /\ parts_left = <<>>
    /\ pass_state = None

\* No path has been parsed: the deny-list is empty and no file is read.
InitParserIdle ==
    /\ remove_parts = <<>>
    /\ extra_disallowed = None
    /\ path = None
    /\ parsed = None
    /\ InitPassIdle

\* process_sub_names has not been called.
InitSubsIdle ==
    /\ sub_show = None
    /\ new_video_name = None
    /\ new_subs = None

\* No file has been discovered: nothing is probed, no directory is walked.
InitDiscoverIdle ==
    /\ widthheight = None
    /\ probed = FALSE
    /\ walked = <<>>

\* One process, with its key, caching enabled, and no cache files.
InitProcessIdle ==
    /\ now = 0
    /\ launches = 0
    /\ auth_key = TRUE
    /\ argv_no_cache = FALSE
    /\ no_caches = FALSE
    /\ cache_time = <<>>
    /\ disk = [files |-> <<>>, fetched_at |-> <<>>]
    /\ loaded = FALSE
    /\ fetched_at = <<>>

\* The rename loop has not begun.
InitRenameIdle ==
    /\ dry_run = FALSE
    /\ renamed = 0
    /\ moves = <<>>

InitRunIdle == InitDiscoverIdle /\ InitProcessIdle /\ InitRenameIdle

\* The summary of a call that ended with result r: prompted says whether it
\* blocked in input(), retried whether a line typed was refused, text is the
\* line that was accepted, first the id selected first for the record's
\* media type and title before the call began.
Ended(fn, show, r, prompted, retried, text, first) ==
    [fn |-> fn, show |-> show, status |-> r.status, ret |-> r.ret, reqs |-> r.reqs,
     list |-> r.list, stored |-> r.stored, prompted |-> prompted, retried |-> retried,
     text |-> text, first |-> first]

\* The first selection made for the record's media type and title, if any.
FirstSelected(show) ==
    IF <<show.media_type, show.title>> \in DOMAIN selected
    THEN Some(selected[<<show.media_type, show.title>>])
    ELSE None

\* A call ends (returns or raises) or blocks in input().
Finish(fn, show, r, prompted, retried, text, first) ==
    /\ SetStore(r.st)
    /\ IF r.status = "input"
       THEN /\ pc' = "input"
            /\ frame' = Some([fn |-> fn, show |-> show, list |-> r.list, reqs |-> r.reqs,
                              retried |-> prompted, first |-> first])
            /\ last' = last
       ELSE /\ pc' = IF r.status = "raise" THEN "crashed" ELSE "returned"
            /\ frame' = None
            /\ last' = Some(Ended(fn, show, r, prompted, retried, text, first))
    /\ UNCHANGED <<no_interact, mainVars, parserVars, subsVars, runVars>>

\* The record of first selections after a call of query_tmdb_id ended with r.
Select(show, r) ==
    IF r.stored # None /\ <<show.media_type, show.title>> \notin DOMAIN selected
    THEN (<<show.media_type, show.title>> :> Val(r.stored)) @@ selected
    ELSE selected

(***************************************************************************)
(* The resolver's functions, called in any order                           *)
(***************************************************************************)
CallQueryAllGenres ==
    /\ pc = "idle" /\ ncalls < MaxCalls
    /\ \E r \in query_all_genres(Store) :
         Finish("query_all_genres", None, r, FALSE, FALSE, None, None)
    /\ ncalls' = ncalls + 1
    /\ UNCHANGED selected

CallQueryShow ==
    /\ pc = "idle" /\ ncalls < MaxCalls
    /\ \E sh \in IdShows :
         /\ sh.media_type = "show" /\ sh.year # None   \* the year only shapes the URL
         /\ \E r \in query_show(Store, sh.title, sh.year) :
              Finish("query_show", Some(sh), r, FALSE, FALSE, None, None)
    /\ ncalls' = ncalls + 1
    /\ UNCHANGED selected

CallQueryMovie ==
    /\ pc = "idle" /\ ncalls < MaxCalls
    /\ \E sh \in IdShows :
         /\ sh.media_type = "movie" /\ sh.year # None  \* the year only shapes the URL
         /\ \E r \in query_movie(Store, sh.title, sh.year) :
              Finish("query_movie", Some(sh), r, FALSE, FALSE, None, None)
    /\ ncalls' = ncalls + 1
    /\ UNCHANGED selected

CallQueryTmdbId ==
    /\ pc = "idle" /\ ncalls < MaxCalls
    /\ \E sh \in IdShows :
         \E r \in query_tmdb_id(Store, sh, no_interact) :
            /\ Finish("query_tmdb_id", Some(sh), r, FALSE, FALSE, None, FirstSelected(sh))
            /\ selected' = Select(sh, r)
    /\ ncalls' = ncalls + 1

CallQueryTmdbDetails ==
    /\ pc = "idle" /\ ncalls < MaxCalls
    /\ \E sh \in Shows :
         \E r \in query_tmdb_details(Store, sh, no_interact) :
            /\ Finish("query_tmdb_details", Some(sh), r, FALSE, FALSE, None, FirstSelected(sh))
            /\ selected' = Select(sh, r)
    /\ ncalls' = ncalls + 1

\* A line is typed at the prompt of the blocked call.
TypeSelection ==
    /\ pc = "input"
    /\ \E text \in InputTexts :
         LET f == Val(frame)
             sh == Val(f.show)
             i == query_tmdb_id_input(Store, sh, f.list, f.reqs, text)
         IN  \E r \in (IF f.fn = "query_tmdb_id" THEN {i} ELSE query_tmdb_details_fetch(i, sh)) :
                /\ Finish(f.fn, f.show, r, TRUE, f.retried, Some(text), f.first)
                /\ selected' = Select(sh, r)
    /\ UNCHANGED ncalls

\* The caller takes the result of the call that ended and goes on.
Resume ==
    /\ pc = "returned"
    /\ pc' = "idle"
    /\ last' = None
    /\ UNCHANGED <<no_interact, tmdb_genres, tmdb_not_found, tmdb_show_name_cache,
                   tmdb_movie_name_cache, tmdb_show_id_cache, tmdb_movie_id_cache,
                   tmdb_details_tv_season_cache, tmdb_details_movie_cache,
                   frame, selected, ncalls, mainVars, parserVars, subsVars, runVars>>

Init == InitResolver /\ InitMainIdle /\ InitParserIdle /\ InitSubsIdle /\ InitRunIdle

Next ==
    \/ CallQueryAllGenres
    \/ CallQueryShow
    \/ CallQueryMovie
    \/ CallQueryTmdbId
    \/ CallQueryTmdbDetails
    \/ TypeSelection
    \/ Resume

Spec == Init /\ [][Next]_vars

(***************************************************************************)
(* Claims about the resolver                                               *)
(***************************************************************************)
\* The requests issued by the call that has just ended or is blocked.
IssuedRequests ==
    IF last # None THEN Val(last).reqs
    ELSE IF frame # None THEN Val(frame).reqs
    ELSE <<>>

\* Whether the call that has just ended is a call of fn that returned.
Returned(fn) == last # None /\ Val(last).fn = fn /\ Val(last).status = "return"

LastShow == Val(Val(last).show)

LastMatches == YearMatches(Val(last).list, LastShow.year)

\* C1: once a title is in tmdb_not_found, no call of query_show, query_movie,
\* query_tmdb_id or query_tmdb_details for that title issues a remote
\* request: every request a call issues is for a title that is not in
\* tmdb_not_found at the moment of the request.
C1_NotFoundNoRequest ==
    \A i \in 1..Len(IssuedRequests) : ~IssuedRequests[i].in_not_found

\* A call for a title that already was in tmdb_not_found has returned (it
\* issued no request, so it did not add the title itself).
C1_Witness ==
    /\ Returned("query_tmdb_details")
    /\ LastShow.title \in tmdb_not_found
    /\ Val(last).reqs = <<>>
    /\ Val(last).ret = None

\* C2: query_tmdb_id is idempotent and cache-first for shows and movies:
\* once a call has selected an id for a title and media type, a later call
\* for the same title and media type returns that id, issues no request and
\* does not prompt.
C2_IdempotentCacheFirst ==
    (Returned("query_tmdb_id") /\ Val(last).first # None) =>
        /\ Val(last).ret = Val(last).first
        /\ Val(last).reqs = <<>>
        /\ ~Val(last).prompted

\* C3: interactive, no id cached: when exactly one candidate has the
\* record's year, query_tmdb_id returns that candidate's id.
C3_UniqueYearMatchSelected ==
    (/\ Returned("query_tmdb_id")
     /\ ~no_interact
     /\ Val(last).list # <<>>
     /\ Cardinality(LastMatches) = 1) =>
        Val(last).ret = Some(Val(last).list[SetMax(LastMatches)].id)

\* C4: with no_interact set, query_tmdb_id never blocks in input(), and
\* for a list of more than one candidate it stores and returns the first
\* candidate's id, however many candidates have the record's year.
C4_NoInteractFirst ==
    no_interact =>
        /\ pc # "input"
        /\ last # None => ~Val(last).prompted
        /\ (last # None /\ Len(Val(last).list) > 1) =>
               Val(last).stored = Some(Val(last).list[1].id)
        /\ (Returned("query_tmdb_id") /\ Len(Val(last).list) > 1) =>
               Val(last).ret = Some(Val(last).list[1].id)

\* no_interact, several candidates, the only one of the record's year is not
\* the first, and the first one was returned.
C4_Witness ==
    /\ no_interact
    /\ Returned("query_tmdb_id")
    /\ Len(Val(last).list) > 1
    /\ LastMatches # {}
    /\ 1 \notin LastMatches
    /\ Val(last).ret = Some(Val(last).list[1].id)

\* The id cache of the record's media type.
IdCacheOf(show) ==
    IF show.media_type = "show" THEN tmdb_show_id_cache ELSE tmdb_movie_id_cache

\* C5: interactive, more than one candidate, and none or several of them of
\* the record's year: query_tmdb_id prompts, and it returns only after a
\* line n with 1 <= n <= number of candidates was typed; what it returns
\* and stores in the id cache is the id of the n-th candidate, never None.
C5_PromptUntilValid ==
    (/\ Returned("query_tmdb_id")
     /\ ~no_interact
     /\ Len(Val(last).list) > 1
     /\ Cardinality(LastMatches) # 1) =>
        /\ Val(last).prompted
        /\ Val(last).text # None
        /\ ParseInt(Val(Val(last).text)) # None
        /\ LET n == Val(ParseInt(Val(Val(last).text)))
           IN  /\ 1 <= n /\ n <= Len(Val(last).list)
               /\ Val(last).ret = Some(Val(last).list[n].id)
               /\ LastShow.title \in DOMAIN IdCacheOf(LastShow)
               /\ IdCacheOf(LastShow)[LastShow.title] = Val(last).list[n].id

\* Several candidates of the record's year, a refused line, then "2".
C5_Witness ==
    /\ Returned("query_tmdb_id")
    /\ ~no_interact
    /\ Cardinality(LastMatches) > 1
    /\ Val(last).retried
    /\ Val(last).text = Some(<<"2">>)
    /\ Val(last).ret = Some(Val(last).list[2].id)

\* C6: when a request made while a record is resolved fails, the resolver
\* returns None for the record and the record's title is in tmdb_not_found.
C6_FailureIsNotFound ==
    (/\ last # None
     /\ Val(last).fn \in {"query_tmdb_id", "query_tmdb_details"}
     /\ Val(last).status = "return"
     /\ \E i \in 1..Len(Val(last).reqs) : ~Val(last).reqs[i].ok) =>
        /\ Val(last).ret = None
        /\ LastShow.title \in tmdb_not_found

(***************************************************************************)
(* __main__: the resolve loop                                              *)
(***************************************************************************)
\* Records discovered in one run.
MaxFiles == 2

\* A record as the discovery loop leaves it (the fields the resolve loop
\* reads).  The title is one character long and held as that character.
Record(mt, title, year, season, episode, show_type, featurette_tags, name) ==
    [media_type |-> mt, title |-> title, name |-> name, extension |-> Str("mkv"),
     show_type |-> show_type, featurette_tags |-> featurette_tags, season |-> season,
     episode |-> episode, episode_end |-> None, resolution |-> Some(Str("1080p")),
     year |-> year, tmdb_id |-> None]

\* The records of a library: two episodes of one season of A, the first
\* without its year, and a trailer of B; or A twice and B as movies.
Records(mt) ==
    IF mt = "show"
    THEN {Record("show", "A", None, Some(1), Some(2), "Show", <<>>, None),
          Record("show", "A", Some(2020), Some(1), Some(3), "Show", <<>>, Some(Str("x"))),
          Record("show", "B", Some(2020), None, None, "Featurette", <<"Trailer">>, Some(Str("t")))}
    ELSE {Record("movie", "A", None, None, None, "Show", <<>>, None),
          Record("movie", "A", Some(2020), None, None, "Show", <<>>, None),
          Record("movie", "B", Some(2020), None, None, "Show", <<>>, None)}

\* What the discovery loop can leave in shows.
DiscoveredLists(mt) == UNION {[1..n -> Records(mt)] : n \in 1..MaxFiles}

\* f"{n:02d}"
Pad2(n) == IF n < 10 THEN Str("0") \o IntToStr(n) ELSE IntToStr(n)

\* f"{x}" of an Optional[str]
FmtOpt(x) == IF x = None THEN Str("None") ELSE Val(x)

RECURSIVE episode_name(_, _, _)
\* The loop over tmdb_details["episodes"]: the name of the first episode
\* whose number is the record's, else the record's own name.
episode_name(episodes, episode, name) ==
    IF episodes = <<>> THEN name
    ELSE IF episode # None /\ Head(episodes).episode_number = Val(episode)
    THEN Some(Head(episodes).name)
    ELSE episode_name(Tail(episodes), episode, name)

\* (making of tested before interview, and "other" without tags)
featurette_dir_making_of_first(tags) ==
    LET has(t) == \E i \in 1..Len(tags) : tags[i] = t
    IN  IF Len(tags) = 0 THEN Str("/other")
        ELSE IF has("Behind the Scenes") THEN Str("/behind the scenes")
        ELSE IF has("Making Of") THEN Str("/behind the scenes")
        ELSE IF has("Interview") THEN Str("/interview")
        ELSE IF has("Deleted Scene") THEN Str("/deleted scenes")
        ELSE IF has("Extra") THEN Str("/extras")
        ELSE IF has("Promo") THEN Str("/other")
        ELSE IF has("Teaser") THEN Str("/other")
        ELSE IF has("Trailer") THEN Str("/trailers")
        ELSE IF has("Webisode") THEN Str("/featurettes")
        ELSE Str("/other")

\* The directory of a featurette, by its tags.
featurette_dir(tags) ==
    LET has(t) == \E i \in 1..Len(tags) : tags[i] = t
    IN  IF Len(tags) = 0 THEN Str("/featurettes")
        ELSE IF has("Behind the Scenes") THEN Str("/behind the scenes")
        ELSE IF has("Interview") THEN Str("/interview")
        ELSE IF has("Making Of") THEN Str("/behind the scenes")
        ELSE IF has("Deleted Scene") THEN Str("/deleted scenes")
        ELSE IF has("Extra") THEN Str("/extras")
        ELSE IF has("Promo") THEN Str("/other")
        ELSE IF has("Teaser") THEN Str("/other")
        ELSE IF has("Trailer") THEN Str("/trailers")
        ELSE IF has("Webisode") THEN Str("/featurettes")
        ELSE Str("/other")

\* "<title> (<year>) [tmdbid-<id>]", the year and the tag when they are set.
title_dir(show) ==
    <<show.title>>
    \o (IF show.year # None THEN Str(" (") \o IntToStr(Val(show.year)) \o Str(")") ELSE <<>>)
    \o (IF show.tmdb_id # None
        THEN Str(" [tmdbid-") \o IntToStr(Val(show.tmdb_id)) \o Str("]") ELSE <<>>)

\* The output path of a record in show mode.
new_path_show(show) ==
    LET dir == title_dir(show)
               \o (IF show.season # None
                   THEN Str("/Season ") \o Pad2(Val(show.season)) ELSE <<>>)
        ext == Str(".") \o show.extension
    IN  IF show.show_type = "Show" /\ show.season # None /\ show.episode # None
        THEN dir \o Str("/") \o <<show.title>> \o Str(" - S") \o Pad2(Val(show.season))
                 \o Str("E") \o Pad2(Val(show.episode))
                 \o (IF show.episode_end # None
                     THEN Str("-") \o Pad2(Val(show.episode_end)) ELSE <<>>)
                 \o Str(" ")
                 \o (IF show.name # None THEN Str("- ") \o Val(show.name) ELSE <<>>)
                 \o Str(" [") \o FmtOpt(show.resolution) \o Str("]") \o ext
        ELSE IF show.show_type = "Sample"
        THEN dir \o Str("/samples/") \o FmtOpt(show.name) \o ext
        ELSE IF show.show_type = "Featurette"
        THEN dir \o featurette_dir(show.featurette_tags) \o Str("/")
                 \o FmtOpt(show.name) \o ext
        ELSE dir

\* The output path of a record in movie mode.
new_path_movie(show) ==
    title_dir(show) \o Str("/") \o <<show.title>> \o Str(" - [")
        \o FmtOpt(show.resolution) \o Str("].") \o show.extension

\* The body of "for show in shows" from the return of query_tmdb_details
\* on: the record with its name, year and id filled in and its output path,
\* or raised when int() of the date's first four characters raises.
resolve_record(show, tmdb_details) ==
    LET is_show == show.media_type = "show"
        d == Val(tmdb_details)
        date == IF tmdb_details = None THEN None
                ELSE IF is_show THEN d.first_air_date ELSE d.release_date
        id == IF tmdb_details = None THEN None
              ELSE IF is_show THEN d.show_id ELSE d.id
        name == IF is_show /\ tmdb_details # None
                THEN episode_name(d.episodes, show.episode, show.name)
                ELSE show.name
        read == show.year = None /\ date # None
        year == IF read THEN ParseInt(Take(Val(date), 4)) ELSE show.year
        filled == [show EXCEPT !.name = name, !.year = year,
                               !.tmdb_id = IF show.tmdb_id = None THEN id ELSE @]
    IN  IF read /\ year = None
        THEN [raised |-> TRUE, show |-> show, new_path |-> None]
        ELSE [raised |-> FALSE, show |-> filled,
              new_path |-> Some(IF is_show THEN new_path_show(filled)
                                ELSE new_path_movie(filled))]

\* (the first record to reach a path keeps it)
set_item_keep_first(d, k, v) == d @@ (k :> v)

\* d[k] = v
set_item(d, k, v) == (k :> v) @@ d

\* After argument parsing: the media type and --no-interact are set, the
\* caches are empty, nothing is discovered.
InitMain ==
    /\ no_interact \in BOOLEAN
    /\ InitStore
    /\ pc = "start"
    /\ frame = None
    /\ last = None
    /\ selected = <<>>
    /\ ncalls = 0
    /\ media_type \in {Some(mt) : mt \in MediaTypes}
    /\ shows = <<>>
    /\ queried = 0
    /\ new_paths = <<>>
    /\ new_path = None
    /\ InitParserIdle
    /\ InitSubsIdle
    /\ InitRunIdle

\* query_all_genres(), then the discovery loop, which leaves one of lists
\* in shows.
MainDiscover(lists) ==
    /\ pc = "start"
    /\ \E r \in query_all_genres(Store) :
         /\ SetStore(r.st)
         /\ last' = Some(Ended("query_all_genres", None, r, FALSE, FALSE, None, None))
    /\ \E found \in lists : shows' = found
    /\ pc' = "query"
    /\ UNCHANGED <<no_interact, frame, selected, ncalls, media_type, queried,
                   new_paths, new_path, parserVars, subsVars, runVars>>

MainStart == MainDiscover(DiscoveredLists(Val(media_type)))

\* query_tmdb_details for record i has ended with r, or blocks in input().
MainEnd(i, r, prompted, retried, text) ==
    LET res == IF r.status = "return" THEN resolve_record(shows[i], r.ret)
               ELSE [raised |-> TRUE, show |-> shows[i], new_path |-> None]
        ended == Some(Ended("query_tmdb_details", Some(shows[i]), r, prompted, retried,
                            text, None))
    IN  /\ SetStore(r.st)
        /\ IF r.status = "input"
           THEN /\ pc' = "input"
                /\ frame' = Some([fn |-> "query_tmdb_details", show |-> Some(shows[i]),
                                  list |-> r.list, reqs |-> r.reqs, retried |-> prompted,
                                  first |-> None])
                /\ UNCHANGED <<last, shows, new_paths, new_path>>
           ELSE IF res.raised
           THEN /\ pc' = "crashed"
                /\ frame' = None
                /\ last' = ended
                /\ UNCHANGED <<shows, new_paths, new_path>>
           ELSE /\ pc' = "query"
                /\ frame' = None
                /\ last' = ended
                /\ shows' = [shows EXCEPT ![i] = res.show]
                /\ new_paths' = set_item(new_paths, Val(res.new_path), i)
                /\ new_path' = res.new_path
        /\ UNCHANGED <<no_interact, selected, ncalls, media_type, parserVars, subsVars, runVars>>

\* One pass of "for show in shows", up to its end or to input().
MainQuery ==
    /\ pc = "query" /\ queried < Len(shows)
    /\ queried' = queried + 1
    /\ \E r \in query_tmdb_details(Store, shows[queried + 1], no_interact) :
         MainEnd(queried + 1, r, FALSE, FALSE, None)

\* A line is typed at the prompt; the pass goes on.
MainTypeSelection ==
    /\ pc = "input"
    /\ \E text \in InputTexts :
         LET f == Val(frame)
             sh == Val(f.show)
             i == query_tmdb_id_input(Store, sh, f.list, f.reqs, text)
         IN  \E r \in query_tmdb_details_fetch(i, sh) :
                MainEnd(queried, r, TRUE, f.retried, Some(text))
    /\ UNCHANGED queried

\* (the resolve loop is left after its first pass)
MainResolved_early ==
    /\ pc = "query" /\ queried >= 1
    /\ pc' = "resolved"
    /\ UNCHANGED <<no_interact, tmdb_genres, tmdb_not_found, tmdb_show_name_cache,
                   tmdb_movie_name_cache, tmdb_show_id_cache, tmdb_movie_id_cache,
                   tmdb_details_tv_season_cache, tmdb_details_movie_cache,
                   frame, last, selected, ncalls, mainVars, parserVars, subsVars, runVars>>

\* The loop is through.
MainResolved ==
    /\ pc = "query" /\ queried = Len(shows)
    /\ pc' = "resolved"
    /\ UNCHANGED <<no_interact, tmdb_genres, tmdb_not_found, tmdb_show_name_cache,
                   tmdb_movie_name_cache, tmdb_show_id_cache, tmdb_movie_id_cache,
                   tmdb_details_tv_season_cache, tmdb_details_movie_cache,
                   frame, last, selected, ncalls, mainVars, parserVars, subsVars, runVars>>

NextMain ==
    \/ MainStart
    \/ MainQuery
    \/ MainTypeSelection
    \/ MainResolved

SpecMain == InitMain /\ [][NextMain]_vars

\* s contains sub.
Contains(s, sub) ==
    \E i \in 0..(Len(s) - Len(sub)) : SubSeq(s, i + 1, i + Len(sub)) = sub

\* C7: no failure of a catalog request (genre list, search or details)
\* terminates the pipeline, and a record for which a request failed is left
\* without a catalog id: its output path has no id tag.
C7_FailureNeverTerminates ==
    /\ pc # "crashed"
    /\ (/\ pc \in {"query", "resolved"}
        /\ last # None
        /\ Val(last).fn = "query_tmdb_details"
        /\ \E i \in 1..Len(Val(last).reqs) : ~Val(last).reqs[i].ok) =>
            /\ shows[queried].tmdb_id = None
            /\ ~Contains(Val(new_path), Str("[tmdbid-"))

(***************************************************************************)
(* Characters and the regular expressions of the path parser               *)
(***************************************************************************)
LowerChars == Str("abcdefghijklmnopqrstuvwxyz")

UpperChars == Str("ABCDEFGHIJKLMNOPQRSTUVWXYZ")

\* \s
Whitespace == {" ", "\t", "\n", "\r", "\f"}

\* \w for the characters of the model's paths, which are ASCII (the letters
\* beyond ASCII that remove_disallowed_chars keeps are word characters too).
WordChars ==
    {LowerChars[i] : i \in 1..Len(LowerChars)} \cup {UpperChars[i] : i \in 1..Len(UpperChars)}
    \cup {DigitChars[i] : i \in 1..Len(DigitChars)} \cup {"_"}

\* c.lower() and c.upper()
Lower(c) ==
    IF \E i \in 1..Len(UpperChars) : UpperChars[i] = c
    THEN LowerChars[CHOOSE i \in 1..Len(UpperChars) : UpperChars[i] = c] ELSE c

Upper(c) ==
    IF \E i \in 1..Len(LowerChars) : LowerChars[i] = c
    THEN UpperChars[CHOOSE i \in 1..Len(LowerChars) : LowerChars[i] = c] ELSE c

LowerStr(s) == [i \in 1..Len(s) |-> Lower(s[i])]

UpperStr(s) == [i \in 1..Len(s) |-> Upper(s[i])]

SetMin(s) == CHOOSE x \in s : \A y \in s : x <= y

\* F of the value of x: x is evaluated once, whatever F does with it.
With(x, F(_)) == CHOOSE r \in {F(v) : v \in {x}} : TRUE

\* s.strip(cls)
Strip(s, cls) ==
    With({i \in 1..Len(s) : s[i] \notin cls},
         LAMBDA keep : IF keep = {} THEN <<>> ELSE SubSeq(s, SetMin(keep), SetMax(keep)))

RECURSIVE Split(_, _)
\* s.split(sep)
Split(s, sep) ==
    With({i \in 1..(Len(s) - Len(sep) + 1) : SubSeq(s, i, i + Len(sep) - 1) = sep},
         LAMBDA hits :
            IF hits = {} THEN <<s>>
            ELSE <<SubSeq(s, 1, SetMin(hits) - 1)>>
                    \o Split(Drop(s, SetMin(hits) + Len(sep) - 1), sep))

RECURSIVE Replace(_, _, _)
\* s[i-1:].replace(old, "")
Replace(s, i, old) ==
    IF old = <<>> \/ i > Len(s) THEN Drop(s, i - 1)
    ELSE IF i + Len(old) - 1 <= Len(s) /\ SubSeq(s, i, i + Len(old) - 1) = old
    THEN Replace(s, i + Len(old), old)
    ELSE <<s[i]>> \o Replace(s, i + 1, old)

RECURSIVE SquashRuns(_, _)
\* re.sub("[cls]+", " ", s): every run of characters of cls becomes one space.
SquashRuns(s, cls) ==
    IF s = <<>> THEN <<>>
    ELSE IF Head(s) \notin cls THEN <<Head(s)>> \o SquashRuns(Tail(s), cls)
    ELSE LET run == SetMin({n \in 1..Len(s) : n = Len(s) \/ s[n + 1] \notin cls})
         IN  <<" ">> \o SquashRuns(Drop(s, run), cls)

\* \b between the first k characters of s and the rest.
Boundary(s, k) ==
    (k >= 1 /\ k <= Len(s) /\ s[k] \in WordChars)
        # (k >= 0 /\ k < Len(s) /\ s[k + 1] \in WordChars)

\* The literal lit (given in lower case) stands at position i of s, in any case.
LitAt(s, i, lit) ==
    /\ i >= 1 /\ i + Len(lit) - 1 <= Len(s)
    /\ LowerStr(SubSeq(s, i, i + Len(lit) - 1)) = lit

\* How many digits stand at position i of s and after (\d+, greedy).
DigitsRun(s, i) ==
    IF i < 1 \/ i > Len(s) THEN 0
    ELSE SetMax({n \in 0..(Len(s) - i + 1) : \A k \in 0..(n - 1) : IsDigit(s[i + k])})

\* Each regular expression is given by the length of its match at position i
\* of s (0: no match there).
\* featurettes? (IGNORECASE)
featurette_at(s, i) ==
    IF LitAt(s, i, Str("featurette"))
    THEN Len(Str("featurette")) + (IF LitAt(s, i + Len(Str("featurette")), Str("s")) THEN 1 ELSE 0)
    ELSE 0

\* sample (IGNORECASE)
sample_at(s, i) == IF LitAt(s, i, Str("sample")) THEN Len(Str("sample")) ELSE 0

\* [\[\(]?\d{4}[^p][\]\)]?
year_at(s, i) ==
    LET d == IF s[i] \in {"[", "("} THEN i + 1 ELSE i
    IN  IF d + 4 <= Len(s) /\ DigitsRun(s, d) >= 4 /\ s[d + 4] # "p"
        THEN (d + 5 - i) + (IF d + 5 <= Len(s) /\ s[d + 5] \in {"]", ")"} THEN 1 ELSE 0)
        ELSE 0

\* S\d+E\d+ (IGNORECASE)
season_episode_at(s, i) ==
    LET n1 == DigitsRun(s, i + 1)
        e == i + 1 + n1
        n2 == DigitsRun(s, e + 1)
    IN  IF Lower(s[i]) = "s" /\ n1 > 0 /\ e <= Len(s) /\ Lower(s[e]) = "e" /\ n2 > 0
        THEN e + n2 - i + 1
        ELSE 0

\* S\d+E\d+\-E\d+ (IGNORECASE)
season_episode_episode_end_at(s, i) ==
    LET n == season_episode_at(s, i)
        n3 == DigitsRun(s, i + n + 2)
    IN  IF n > 0 /\ i + n + 1 <= Len(s) /\ s[i + n] = "-" /\ Lower(s[i + n + 1]) = "e" /\ n3 > 0
        THEN n + 2 + n3
        ELSE 0

\* season \d+ (IGNORECASE)
season_at(s, i) ==
    IF LitAt(s, i, Str("season ")) /\ DigitsRun(s, i + Len(Str("season "))) > 0
    THEN Len(Str("season ")) + DigitsRun(s, i + Len(Str("season ")))
    ELSE 0

\* 8k|4k|4320p|2160p|1080p|720p|480p (IGNORECASE): the first alternative
\* that matches at i.
resolution_words ==
    <<Str("8k"), Str("4k"), Str("4320p"), Str("2160p"), Str("1080p"), Str("720p"), Str("480p")>>

resolution_at(s, i) ==
    With({k \in 1..Len(resolution_words) : LitAt(s, i, resolution_words[k])},
         LAMBDA hits : IF hits = {} THEN 0 ELSE Len(resolution_words[SetMin(hits)]))

\* \b<term>\b (IGNORECASE), the term of the deny-list taken as a plain word.
word_at(s, i, term) ==
    IF /\ LitAt(s, i, LowerStr(term))
       /\ Boundary(s, i - 1)
       /\ Boundary(s, i - 1 + Len(term))
    THEN Len(term) ELSE 0

\* The regular expressions exec_regex is called with, by their patterns: the
\* length of the match of regex at position i of s.
match_at(regex, s, i) ==
    CASE regex = "featurettes?" -> featurette_at(s, i)
      [] regex = "sample" -> sample_at(s, i)
      [] regex = "[\\[\\(]?\\d{4}[^p][\\]\\)]?" -> year_at(s, i)
      [] regex = "S\\d+E\\d+\\-E\\d+" -> season_episode_episode_end_at(s, i)
      [] regex = "S\\d+E\\d+" -> season_episode_at(s, i)
      [] regex = "season \\d+" -> season_at(s, i)
      [] regex = "8k|4k|4320p|2160p|1080p|720p|480p" -> resolution_at(s, i)

\* regex.search(s): the span of the leftmost match, None when there is none.
Search(regex, s) ==
    With({i \in 1..Len(s) : match_at(regex, s, i) > 0},
         LAMBDA starts :
            IF starts = {} THEN None
            ELSE Some([start |-> SetMin(starts) - 1,
                       end |-> SetMin(starts) - 1 + match_at(regex, s, SetMin(starts))]))

exec_regex(regex, s) ==
    With(Search(regex, s),
         LAMBDA match :
            IF match = None THEN [s |-> s, match |-> None]
            ELSE [s |-> SquashRuns(Take(s, Val(match).start) \o Drop(s, Val(match).end),
                                   Whitespace),
                  match |-> Some(SubSeq(s, Val(match).start + 1, Val(match).end))])

RECURSIVE remove_word(_, _, _)
\* re.compile(r"\b" + term + r"\b", re.IGNORECASE).sub("", s), from position i on
remove_word(s, i, term) ==
    IF i > Len(s) THEN <<>>
    ELSE IF word_at(s, i, term) > 0 THEN remove_word(s, i + word_at(s, i, term), term)
    ELSE <<s[i]>> \o remove_word(s, i + 1, term)

RECURSIVE remove_disallowed(_, _)
\* for disallowed in remove_parts: part = re.compile(...).sub("", part)
remove_disallowed(part, terms) ==
    IF terms = <<>> THEN part
    ELSE remove_disallowed(remove_word(part, 1, Head(terms)), Tail(terms))

RECURSIVE remove_removed(_, _)
\* for removed_part in removed_parts: part = part.replace(removed_part, "")
remove_removed(part, removed_parts) ==
    IF removed_parts = <<>> THEN part
    ELSE remove_removed(Replace(part, 1, Head(removed_parts)), Tail(removed_parts))

(***************************************************************************)
(* parse_show_or_movie_path                                                *)
(***************************************************************************)
\* Path(p).name for a relative path as os.walk gives it
PathName(p) == LET parts == Split(p, Str("/")) IN parts[Len(parts)]

\* Path(p).suffix: the last dot of the name and what follows it, unless the
\* name starts or ends with that dot.
suffix(p) ==
    With(PathName(p),
         LAMBDA name :
            With({i \in 1..Len(name) : name[i] = "."},
                 LAMBDA dots :
                    IF dots # {} /\ 1 < SetMax(dots) /\ SetMax(dots) < Len(name)
                    THEN Drop(name, SetMax(dots) - 1)
                    ELSE <<>>))

\* Path(p).stem
stem(p) == Take(PathName(p), Len(PathName(p)) - Len(suffix(p)))

\* (the allow-list without its last entry)
VideoExtensions_without_3g2 ==
    {Str("mp4"), Str("mkv"), Str("avi"), Str("webm"), Str("flv"), Str("mov"), Str("wmv"),
     Str("m4v"), Str("3gp")}

VideoExtensions ==
    {Str("mp4"), Str("mkv"), Str("avi"), Str("webm"), Str("flv"), Str("mov"), Str("wmv"),
     Str("m4v"), Str("3gp"), Str("3g2")}

replace_separators_with_spaces(s) == SquashRuns(s, {".", "_"} \cup Whitespace)

remove_disallowed_chars(s) ==
    LET allowed(c) == c \in (WordChars \ {"_"}) \cup Whitespace \cup {"(", ")", "[", "]", "-"}
    IN  SelectSeq(s, allowed)

RECURSIVE split_dash(_)
\* re.compile(r"\b-\b").split(part)
split_dash(part) ==
    With({i \in 1..Len(part) : part[i] = "-" /\ Boundary(part, i - 1) /\ Boundary(part, i)},
         LAMBDA hits :
            IF hits = {} THEN <<part>>
            ELSE <<SubSeq(part, 1, SetMin(hits) - 1)>> \o split_dash(Drop(part, SetMin(hits))))

\* Show() as parse_show_or_movie_path first fills it.
NewShow(p, mt, extension) ==
    [media_type |-> mt, title |-> None, name |-> None, extension |-> extension,
     show_type |-> "Show", featurette_tags |-> <<>>, season |-> None, episode |-> None,
     episode_end |-> None, resolution |-> None, year |-> None, fullpath |-> p,
     subtitle_paths |-> <<>>, tmdb_id |-> None]

\* The loop's state st: the part at hand, removed_parts, first, the local
\* resolution, and show.  exec_regex on the part, and removed_parts.append
\* of what matched.
take(st, regex) ==
    With(exec_regex(regex, st.part),
         LAMBDA r :
            [match |-> r.match,
             st |-> IF r.match = None THEN st
                    ELSE [st EXCEPT !.part = r.s, !.removed_parts = Append(@, Val(r.match))]])

take_featurette(st) ==
    With(take(st, "featurettes?"),
         LAMBDA t : IF t.match = None THEN st ELSE [t.st EXCEPT !.show.show_type = "Featurette"])

take_sample(st) ==
    With(take(st, "sample"),
         LAMBDA t : IF t.match = None THEN st ELSE [t.st EXCEPT !.show.show_type = "Sample"])

take_year(st) ==
    IF st.show.year # None THEN st
    ELSE With(take(st, "[\\[\\(]?\\d{4}[^p][\\]\\)]?"),
              LAMBDA t :
                 IF t.match = None THEN st
                 ELSE With(ParseInt(Strip(Val(t.match), {"(", ")", "[", "]", " "})),
                           LAMBDA year : IF year = None THEN t.st
                                         ELSE [t.st EXCEPT !.show.year = year]))

\* The numbers of S<season>E<episode>-E<episode_end> as the try block reads
\* them, None when it raises: split("-E") tells the cases of the letter apart.
season_episode_episode_end_of(match) ==
    With(Split(Drop(match, 1), Str("-E")),
         LAMBDA halves :
            IF Len(halves) # 2 \/ Len(Split(UpperStr(halves[1]), Str("E"))) # 2 THEN None
            ELSE Some([season |-> ParseInt(Split(UpperStr(halves[1]), Str("E"))[1]),
                       episode |-> ParseInt(Split(UpperStr(halves[1]), Str("E"))[2]),
                       episode_end |-> ParseInt(halves[2])]))

take_season_episode_episode_end(st) ==
    IF st.show.season # None /\ st.show.episode # None THEN st
    ELSE With(take(st, "S\\d+E\\d+\\-E\\d+"),
              LAMBDA t :
                 IF t.match = None THEN st
                 ELSE With(season_episode_episode_end_of(Val(t.match)),
                           LAMBDA n :
                              IF n = None THEN t.st
                              ELSE [t.st EXCEPT !.show.season = Val(n).season,
                                                !.show.episode = Val(n).episode,
                                                !.show.episode_end = Val(n).episode_end]))

take_season_episode(st) ==
    IF st.show.season # None /\ st.show.episode # None THEN st
    ELSE With(take(st, "S\\d+E\\d+"),
              LAMBDA t :
                 IF t.match = None THEN st
                 ELSE With(Split(UpperStr(Drop(Val(t.match), 1)), Str("E")),
                           LAMBDA season_episode :
                              IF Len(season_episode) # 2 THEN t.st
                              ELSE [t.st EXCEPT !.show.season = ParseInt(season_episode[1]),
                                                !.show.episode = ParseInt(season_episode[2])]))

take_season(st) ==
    IF st.show.season # None THEN st
    ELSE With(take(st, "season \\d+"),
              LAMBDA t :
                 IF t.match = None THEN st
                 ELSE [t.st EXCEPT !.show.season =
                                      ParseInt(Drop(Val(t.match), Len(Str("season "))))])

\* "if resolution is not None": what the local resolution holds is appended
\* and stored on every pass, searched for in this one or not.
store_resolution(st) ==
    IF st.resolution = None THEN st
    ELSE [st EXCEPT !.removed_parts = Append(@, Val(st.resolution)),
                    !.show.resolution =
                        IF LowerStr(Val(st.resolution)) = Str("4k") THEN Some(Str("2160p"))
                        ELSE IF LowerStr(Val(st.resolution)) = Str("8k") THEN Some(Str("4320p"))
                        ELSE st.resolution]

\* The search runs only while show.resolution is unset.
take_resolution(st) ==
    IF st.show.resolution # None THEN store_resolution(st)
    ELSE With(exec_regex("8k|4k|4320p|2160p|1080p|720p|480p", st.part),
              LAMBDA r : store_resolution([st EXCEPT !.part = r.s, !.resolution = r.match]))

\* show.name from the last part, unless a term of remove_parts matches at
\* its start (.match).
take_name(st, terms) ==
    With({i \in 1..Len(st.part) : st.part[i] = "("},
         LAMBDA parens :
            IF parens # {}
            THEN [st EXCEPT !.part = Drop(st.part, SetMax(parens) - 1),
                            !.show.name =
                                Some(Strip(Take(st.part, SetMax(parens) - 1), Whitespace))]
            ELSE IF \E k \in 1..Len(terms) :
                        /\ LitAt(st.part, 1, LowerStr(terms[k]))
                        /\ Boundary(st.part, 0)
                        /\ Boundary(st.part, Len(terms[k]))
            THEN st
            ELSE [st EXCEPT !.show.name = Some(Strip(st.part, Whitespace))])

\* The regular expressions of one pass, in their order, on the part.
take_all(st) ==
    take_resolution(take_season(take_season_episode(take_season_episode_episode_end(
        take_year(take_sample(take_featurette(st)))))))

\* One pass of the loop from "if first" on, t being the state the regular
\* expressions have left.
take_title_or_name(t, is_last, terms) ==
    IF t.first THEN [t EXCEPT !.first = FALSE, !.show.title = Some(Strip(t.part, Whitespace))]
    ELSE IF is_last THEN take_name(t, terms)
    ELSE t

RECURSIVE parse_parts(_, _, _)
\* while len(parts) > 0
parse_parts(parts, st, terms) ==
    IF parts = <<>> THEN st.show
    ELSE With(remove_disallowed_chars(replace_separators_with_spaces(Head(parts))),
              LAMBDA part :
                 With(split_dash(part),
                      LAMBDA subparts :
                         IF Len(subparts) > 1
                         THEN parse_parts(subparts \o Tail(parts), st, terms)
                         ELSE With(remove_disallowed(remove_removed(part, st.removed_parts),
                                                     terms),
                                   LAMBDA cleaned :
                                      IF cleaned = <<>> THEN parse_parts(Tail(parts), st, terms)
                                      ELSE parse_parts(
                                               Tail(parts),
                                               take_title_or_name(
                                                   take_all([st EXCEPT !.part = cleaned]),
                                                   Len(parts) = 1, terms),
                                               terms))))

\* FeaturetteTag by the words searched for (IGNORECASE), in the order of
\* the searches.
featurette_words ==
    <<<<"behind the", "Behind the Scenes">>, <<"interview", "Interview">>,
      <<"making of", "Making Of">>, <<"promo", "Promo">>, <<"trailer", "Trailer">>,
      <<"teaser", "Teaser">>, <<"webisode", "Webisode">>,
      <<"deleted scene", "Deleted Scene">>, <<"extra", "Extra">>>>

\* The tags of a featurette, searched in the path.
featurette_tags_of(p) ==
    With(SelectSeq(featurette_words,
                   LAMBDA e : \E i \in 1..Len(p) : LitAt(p, i, Str(e[1]))),
         LAMBDA hits : [k \in 1..Len(hits) |-> hits[k][2]])

\* The extension is on the allow-list.
IsVideo(p) == Drop(suffix(p), 1) \in VideoExtensions

\* remove_parts after a call: extra_disallowed.txt is read by the first call
\* that gets past the extension check while remove_parts is empty.
load_remove_parts(p, terms, file) ==
    IF IsVideo(p) /\ Len(terms) = 0 /\ file # None THEN Split(Val(file), Str("\n"))
    ELSE terms

\* str(path)[: -len(extension)]
strip_extension(p, extension) ==
    IF extension = <<>> THEN <<>> ELSE Take(p, Len(p) - Len(extension))

\* The loop, and the tags of a featurette.
parse_video(p, mt, extension, terms) ==
    With(parse_parts(Split(strip_extension(p, extension), Str("/")),
                     [part |-> <<>>, removed_parts |-> <<>>, first |-> TRUE,
                      resolution |-> None, show |-> NewShow(p, mt, extension)],
                     terms),
         LAMBDA show :
            IF show.show_type = "Featurette"
            THEN [show EXCEPT !.featurette_tags =
                                 featurette_tags_of(strip_extension(p, extension))]
            ELSE show)

\* parse_show_or_movie_path(p, mt) with remove_parts = terms (after the file
\* is read): None, or Some(show).
parse_show_or_movie_path(p, mt, terms) ==
    IF ~IsVideo(p) THEN None
    ELSE Some(parse_video(p, mt, Drop(suffix(p), 1), terms))

(***************************************************************************)
(* Calls of parse_show_or_movie_path                                       *)
(***************************************************************************)
\* The paths the discovery loop hands over, relative to the library's root:
\* names with and without season, episode, year, resolution and deny-listed
\* words, in the root, in a directory and in a season's directory, as a video
\* and as a subtitle; and one name with every ending, hidden files too.
ParseDirs == {<<>>, Str("A/"), Str("A (2020)/Season 1/")}

ParseStems ==
    {Str("x"), Str("S01E02-E03"), Str("s1e10-e11"), Str("S01E02(2020)-E03"),
     Str("A - S01E02 - x"), Str("A.S01E02.1080p.rip"), Str("Featurette - Trailer"),
     Str("A 4k sample")}

ParseSuffixes ==
    {Str(".mp4"), Str(".mkv"), Str(".avi"), Str(".webm"), Str(".flv"), Str(".mov"),
     Str(".wmv"), Str(".m4v"), Str(".3gp"), Str(".3g2"),
     <<>>, Str("."), Str(".MKV"), Str(".srt"), Str(".mkv."), Str(".tar.mkv"), Str(".mp3")}

ParsePaths ==
    {d \o s \o x : d \in ParseDirs, s \in ParseStems, x \in {Str(".mkv"), Str(".srt")}}
        \cup {Str("A/x") \o x : x \in ParseSuffixes}
        \cup {Str(".mkv"), Str("A/.mkv"), Str("A/.mkv."), Str("A/..mkv")}

\* extra_disallowed.txt: absent, or one term and a final newline.
DisallowedFiles == {None, Some(Str("rip\n"))}

\* The discovery loop is about to hand over a path: the deny-list is empty,
\* or an earlier call has read it from the file.
InitParse ==
    /\ InitResolver
    /\ InitSubsIdle
    /\ InitRunIdle
    /\ media_type \in {Some(mt) : mt \in MediaTypes}
    /\ shows = <<>>
    /\ queried = 0
    /\ new_paths = <<>>
    /\ new_path = None
    /\ extra_disallowed \in DisallowedFiles
    /\ remove_parts \in {<<>>, load_remove_parts(Str("x.mkv"), <<>>, extra_disallowed)}
    /\ path \in {Some(p) : p \in ParsePaths}
    /\ parsed = None
    /\ InitPassIdle

\* The call of parse_show_or_movie_path for the path.
CallParse ==
    /\ parsed = None
    /\ LET terms == load_remove_parts(Val(path), remove_parts, extra_disallowed)
       IN  /\ remove_parts' = terms
           /\ parsed' = Some(parse_show_or_movie_path(Val(path), Val(media_type), terms))
    /\ UNCHANGED <<resolverVars, mainVars, subsVars, runVars, extra_disallowed, path, passVars>>

SpecParse == InitParse /\ [][CallParse]_vars

\* The extension of a path as a file name carries it: what follows the last
\* dot of the name, when something precedes that dot and something follows.
FileExtension(p) ==
    LET name == PathName(p)
        cuts == {i \in 2..(Len(name) - 1) :
                    name[i] = "." /\ \A k \in (i + 1)..Len(name) : name[k] # "."}
    IN  IF cuts = {} THEN <<>> ELSE Drop(name, CHOOSE i \in cuts : TRUE)

\* The allow-list as the specification gives it.
AllowListed ==
    {Str("mp4"), Str("mkv"), Str("avi"), Str("webm"), Str("flv"), Str("mov"), Str("wmv"),
     Str("m4v"), Str("3gp"), Str("3g2")}

\* C8: parse_show_or_movie_path returns None for every path whose extension
\* is not on the allow-list of video extensions, and a record (of that path,
\* with that extension) for every path whose extension is on it.
C8_AllowListedExtension ==
    parsed # None =>
        IF FileExtension(Val(path)) \in AllowListed
        THEN /\ Val(parsed) # None
             /\ Val(Val(parsed)).fullpath = Val(path)
             /\ Val(Val(parsed)).extension = FileExtension(Val(path))
        ELSE Val(parsed) = None

\* A name with the extension in capitals has been rejected, in a run in which
\* a video was parsed before (the deny-list is loaded).
C8_Witness ==
    /\ path = Some(Str("A/x.MKV"))
    /\ parsed = Some(None)
    /\ remove_parts # <<>>

\* The numbers of the first token S<digits>E<digits>-E<digits> of a path,
\* None when the path has no such token.
RangeToken(p) ==
    LET starts == {i \in 1..Len(p) : season_episode_episode_end_at(p, i) > 0}
        i == SetMin(starts)
        n1 == DigitsRun(p, i + 1)
        n2 == DigitsRun(p, i + n1 + 2)
        n3 == DigitsRun(p, i + n1 + n2 + 4)
    IN  IF starts = {} THEN None
        ELSE Some([season |-> DigitsToInt(SubSeq(p, i + 1, i + n1)),
                   episode |-> DigitsToInt(SubSeq(p, i + n1 + 2, i + n1 + n2 + 1)),
                   episode_end |-> DigitsToInt(SubSeq(p, i + n1 + n2 + 4,
                                                      i + n1 + n2 + n3 + 3))])

\* C9: a path with a token S<digits>E<digits>-E<digits> is parsed into a
\* record whose season, episode and episode_end are the three numbers of
\* the token.
C9_RangeTokenExtracted ==
    (/\ parsed # None
     /\ Val(parsed) # None
     /\ RangeToken(Val(path)) # None) =>
        LET show == Val(Val(parsed))
            token == Val(RangeToken(Val(path)))
        IN  /\ show.season = Some(token.season)
            /\ show.episode = Some(token.episode)
            /\ show.episode_end = Some(token.episode_end)

(***************************************************************************)
(* process_sub_names                                                       *)
(***************************************************************************)
\* LANGUAGES, in the order of the dict: the canonical name and its codes.
LanguageTable ==
    <<
      <<"abkhazian", <<"ab", "abk", "abk", "abk">>>>,
      <<"afar", <<"aa", "aar", "aar", "aar">>>>,
      <<"afrikaans", <<"af", "afr", "afr", "afr">>>>,
      <<"akan", <<"ak", "aka", "aka", "aka">>>>,
      <<"albanian", <<"sq", "sqi", "alb", "sqi">>>>,
      <<"amharic", <<"am", "amh", "amh", "amh">>>>,
      <<"arabic", <<"ar", "ara", "ara", "ara">>>>,
      <<"aragonese", <<"an", "arg", "arg", "arg">>>>,
      <<"armenian", <<"hy", "hye", "arm", "hye">>>>,
      <<"assamese", <<"as", "asm", "asm", "asm">>>>,
      <<"avaric", <<"av", "ava", "ava", "ava">>>>,
      <<"avestan", <<"ae", "ave", "ave", "ave">>>>,
      <<"aymara", <<"ay", "aym", "aym", "aym">>>>,
      <<"azerbaijani", <<"az", "aze", "aze", "aze">>>>,
      <<"bambara", <<"bm", "bam", "bam", "bam">>>>,
      <<"bashkir", <<"ba", "bak", "bak", "bak">>>>,
      <<"basque", <<"eu", "eus", "baq", "eus">>>>,
      <<"belarusian", <<"be", "bel", "bel", "bel">>>>,
      <<"bengali", <<"bn", "ben", "ben", "ben">>>>,
      <<"bislama", <<"bi", "bis", "bis", "bis">>>>,
      <<"bosnian", <<"bs", "bos", "bos", "bos">>>>,
      <<"breton", <<"br", "bre", "bre", "bre">>>>,
      <<"bulgarian", <<"bg", "bul", "bul", "bul">>>>,
      <<"burmese", <<"my", "mya", "bur", "mya">>>>,
      <<"cambodian", <<"K", "kuyu", "ki", "kik">>>>,
      <<"catalan", <<"ca", "cat", "cat", "cat">>>>,
      <<"centralKhmer", <<"km", "khm", "khm", "khm">>>>,
      <<"chamorro", <<"ch", "cha", "cha", "cha">>>>,
      <<"chechen", <<"ce", "che", "che", "che">>>>,
      <<"chichewa", <<"ny", "nya", "nya", "nya">>>>,
      <<"chinese", <<"zh", "zho", "chi", "zho">>>>,
      <<"churchSlavonic", <<"cu", "chu", "chu", "chu">>>>,
      <<"chuvash", <<"cv", "chv", "chv", "chv">>>>,
      <<"cornish", <<"kw", "cor", "cor", "cor">>>>,
      <<"corsican", <<"co", "cos", "cos", "cos">>>>,
      <<"cree", <<"cr", "cre", "cre", "cre">>>>,
      <<"croatian", <<"hr", "hrv", "hrv", "hrv">>>>,
      <<"czech", <<"cs", "ces", "cze", "ces">>>>,
      <<"danish", <<"da", "dan", "dan", "dan">>>>,
      <<"divehi", <<"dv", "div", "div", "div">>>>,
      <<"dutch", <<"nl", "nld", "dut", "nld">>>>,
      <<"dzongkha", <<"dz", "dzo", "dzo", "dzo">>>>,
      <<"english", <<"en", "eng", "eng", "eng">>>>,
      <<"esperanto", <<"eo", "epo", "epo", "epo">>>>,
      <<"estonian", <<"et", "est", "est", "est">>>>,
      <<"ewe", <<"ee", "ewe", "ewe", "ewe">>>>,
      <<"faroese", <<"fo", "fao", "fao", "fao">>>>,
      <<"fijian", <<"fj", "fij", "fij", "fij">>>>,
      <<"finnish", <<"fi", "fin", "fin", "fin">>>>,
      <<"french", <<"fr", "fra", "fre", "fra">>>>,
      <<"fulah", <<"ff", "ful", "ful", "ful">>>>,
      <<"gaelic", <<"gd", "gla", "gla", "gla">>>>,
      <<"galician", <<"gl", "glg", "glg", "glg">>>>,
      <<"ganda", <<"lg", "lug", "lug", "lug">>>>,
      <<"georgian", <<"ka", "kat", "geo", "kat">>>>,
      <<"german", <<"de", "deu", "ger", "deu">>>>,
      <<"greek", <<"el", "ell", "gre", "ell">>>>,
      <<"guarani", <<"gn", "grn", "grn", "grn">>>>,
      <<"gujarati", <<"gu", "guj", "guj", "guj">>>>,
      <<"haitian", <<"ht", "hat", "hat", "hat">>>>,
      <<"hausa", <<"ha", "hau", "hau", "hau">>>>,
      <<"hebrew", <<"he", "heb", "heb", "heb">>>>,
      <<"herero", <<"hz", "her", "her", "her">>>>,
      <<"hindi", <<"hi", "hin", "hin", "hin">>>>,
      <<"hiriMotu", <<"ho", "hmo", "hmo", "hmo">>>>,
      <<"hungarian", <<"hu", "hun", "hun", "hun">>>>,
      <<"icelandic", <<"is", "isl", "ice", "isl">>>>,
      <<"ido", <<"io", "ido", "ido", "ido">>>>,
      <<"igbo", <<"ig", "ibo", "ibo", "ibo">>>>,
      <<"indonesian", <<"id", "ind", "ind", "ind">>>>,
      <<"interlingua", <<"ia", "ina", "ina", "ina">>>>,
      <<"interlingue", <<"ie", "ile", "ile", "ile">>>>,
      <<"inuktitut", <<"iu", "iku", "iku", "iku">>>>,
      <<"inupiaq", <<"ik", "ipk", "ipk", "ipk">>>>,
      <<"irish", <<"ga", "gle", "gle", "gle">>>>,
      <<"italian", <<"it", "ita", "ita", "ita">>>>,
      <<"japanese", <<"ja", "jpn", "jpn", "jpn">>>>,
      <<"javanese", <<"jv", "jav", "jav", "jav">>>>,
      <<"kalaallisut", <<"kl", "kal", "kal", "kal">>>>,
      <<"kannada", <<"kn", "kan", "kan", "kan">>>>,
      <<"kanuri", <<"kr", "kau", "kau", "kau">>>>,
      <<"kashmiri", <<"ks", "kas", "kas", "kas">>>>,
      <<"kazakh", <<"kk", "kaz", "kaz", "kaz">>>>,
      <<"kikuyu", <<"rw", "kin", "kin", "kin">>>>,
      <<"kirghiz", <<"ky", "kir", "kir", "kir">>>>,
      <<"komi", <<"kv", "kom", "kom", "kom">>>>,
      <<"kongo", <<"kg", "kon", "kon", "kon">>>>,
      <<"korean", <<"ko", "kor", "kor", "kor">>>>,
      <<"kuanyama", <<"kj", "kua", "kua">>>>,
      <<"kurdish", <<"ku", "kur", "kur", "kur">>>>,
      <<"lao", <<"lo", "lao", "lao", "lao">>>>,
      <<"latin", <<"la", "lat", "lat", "lat">>>>,
      <<"latvian", <<"lv", "lav", "lav", "lav">>>>,
      <<"limburgan", <<"li", "lim", "lim", "lim">>>>,
      <<"lingala", <<"ln", "lin", "lin", "lin">>>>,
      <<"lithuanian", <<"lt", "lit", "lit", "lit">>>>,
      <<"lubaKatanga", <<"lu", "lub", "lub", "lub">>>>,
      <<"luxembourgish", <<"lb", "ltz", "ltz", "ltz">>>>,
      <<"macedonian", <<"mk", "mkd", "mac", "mkd">>>>,
      <<"malagasy", <<"mg", "mlg", "mlg", "mlg">>>>,
      <<"malay", <<"ms", "msa", "may", "msa">>>>,
      <<"malayalam", <<"ml", "mal", "mal", "mal">>>>,
      <<"maltese", <<"mt", "mlt", "mlt", "mlt">>>>,
      <<"manx", <<"gv", "glv", "glv", "glv">>>>,
      <<"maori", <<"mi", "mri", "mao", "mri">>>>,
      <<"marathi", <<"mr", "mar", "mar", "mar">>>>,
      <<"marshallese", <<"mh", "mah", "mah", "mah">>>>,
      <<"mongolian", <<"mn", "mon", "mon", "mon">>>>,
      <<"nauru", <<"na", "nau", "nau", "nau">>>>,
      <<"navajo", <<"nv", "nav", "nav", "nav">>>>,
      <<"ndonga", <<"ng", "ndo", "ndo", "ndo">>>>,
      <<"nepali", <<"ne", "nep", "nep", "nep">>>>,
      <<"northernSami", <<"se", "sme", "sme", "sme">>>>,
      <<"northNdebele", <<"nd", "nde", "nde", "nde">>>>,
      <<"norwegian", <<"no", "nor", "nor", "nor">>>>,
      <<"occitan", <<"oc", "oci", "oci", "oci">>>>,
      <<"ojibwa", <<"oj", "oji", "oji", "oji">>>>,
      <<"oriya", <<"or", "ori", "ori", "ori">>>>,
      <<"oromo", <<"om", "orm", "orm", "orm">>>>,
      <<"ossetian", <<"os", "oss", "oss", "oss">>>>,
      <<"pali", <<"pi", "pli", "pli", "pli">>>>,
      <<"pashto", <<"ps", "pus", "pus", "pus">>>>,
      <<"persian", <<"fa", "fas", "per", "fas">>>>,
      <<"polish", <<"pl", "pol", "pol", "pol">>>>,
      <<"portuguese", <<"pt", "por", "por", "por">>>>,
      <<"punjabi", <<"pa", "pan", "pan", "pan">>>>,
      <<"quechua", <<"qu", "que", "que", "que">>>>,
      <<"romanian", <<"ro", "ron", "rum", "ron">>>>,
      <<"romansh", <<"rm", "roh", "roh", "roh">>>>,
      <<"rundi", <<"rn", "run", "run", "run">>>>,
      <<"russian", <<"ru", "rus", "rus", "rus">>>>,
      <<"samoan", <<"sm", "smo", "smo", "smo">>>>,
      <<"sango", <<"sg", "sag", "sag", "sag">>>>,
      <<"sanskrit", <<"sa", "san", "san", "san">>>>,
      <<"sardinian", <<"sc", "srd", "srd", "srd">>>>,
      <<"serbian", <<"sr", "srp", "srp", "srp">>>>,
      <<"shona", <<"sn", "sna", "sna", "sna">>>>,
      <<"sichuanYi", <<"ii", "iii", "iii", "iii">>>>,
      <<"sindhi", <<"sd", "snd", "snd", "snd">>>>,
      <<"sinhala", <<"si", "sin", "sin", "sin">>>>,
      <<"slovak", <<"sk", "slk", "slo", "slk">>>>,
      <<"slovenian", <<"sl", "slv", "slv", "slv">>>>,
      <<"somali", <<"so", "som", "som", "som">>>>,
      <<"southernSotho", <<"st", "sot", "sot", "sot">>>>,
      <<"southNdebele", <<"nr", "nbl", "nbl", "nbl">>>>,
      <<"spanish", <<"es", "spa", "spa", "spa">>>>,
      <<"sundanese", <<"su", "sun", "sun", "sun">>>>,
      <<"swahili", <<"sw", "swa", "swa", "swa">>>>,
      <<"swati", <<"ss", "ssw", "ssw", "ssw">>>>,
      <<"swedish", <<"sv", "swe", "swe", "swe">>>>,
      <<"tagalog", <<"tl", "tgl", "tgl", "tgl">>>>,
      <<"tahitian", <<"ty", "tah", "tah", "tah">>>>,
      <<"tajik", <<"tg", "tgk", "tgk", "tgk">>>>,
      <<"tamil", <<"ta", "tam", "tam", "tam">>>>,
      <<"tatar", <<"tt", "tat", "tat", "tat">>>>,
      <<"telugu", <<"te", "tel", "tel", "tel">>>>,
      <<"thai", <<"th", "tha", "tha", "tha">>>>,
      <<"tibetan", <<"bo", "bod", "tib", "bod">>>>,
      <<"tigrinya", <<"ti", "tir", "tir", "tir">>>>,
      <<"tonga", <<"to", "ton", "ton", "ton">>>>,
      <<"tsonga", <<"ts", "tso", "tso", "tso">>>>,
      <<"tswana", <<"tn", "tsn", "tsn", "tsn">>>>,
      <<"turkish", <<"tr", "tur", "tur", "tur">>>>,
      <<"turkmen", <<"tk", "tuk", "tuk", "tuk">>>>,
      <<"twi", <<"tw", "twi", "twi", "twi">>>>,
      <<"uighur", <<"ug", "uig", "uig", "uig">>>>,
      <<"ukrainian", <<"uk", "ukr", "ukr", "ukr">>>>,
      <<"urdu", <<"ur", "urd", "urd", "urd">>>>,
      <<"uzbek", <<"uz", "uzb", "uzb", "uzb">>>>,
      <<"venda", <<"ve", "ven", "ven", "ven">>>>,
      <<"vietnamese", <<"vi", "vie", "vie", "vie">>>>,
      <<"volapuk", <<"vo", "vol", "vol", "vol">>>>,
      <<"walloon", <<"wa", "wln", "wln", "wln">>>>,
      <<"welsh", <<"cy", "cym", "wel", "cym">>>>,
      <<"westernfrisian", <<"fy", "fry", "fry", "fry">>>>,
      <<"wolof", <<"wo", "wol", "wol", "wol">>>>,
      <<"xhosa", <<"xh", "xho", "xho", "xho">>>>,
      <<"yiddish", <<"yi", "yid", "yid", "yid">>>>,
      <<"yoruba", <<"yo", "yor", "yor", "yor">>>>,
      <<"zhuang", <<"za", "zha", "zha", "zha">>>>,
      <<"zulu", <<"zu", "zul", "zul", "zul">>>>
    >>

LANGUAGES ==
    [k \in 1..Len(LanguageTable) |->
        [lang |-> Str(LanguageTable[k][1]),
         codes |-> [j \in 1..Len(LanguageTable[k][2]) |-> Str(LanguageTable[k][2][j])]]]

\* (the same numbers read as the costs of a deletion, a substitution and an
\* insertion: a substitution 1, an insertion 20, a deletion 100)
Weights_substitution_first == <<20, 100, 1>>

\* weights=(1, 20, 100): the costs of an insertion, a deletion and a
\* substitution, in the order the library takes them.
Weights == <<1, 20, 100>>

\* if dist > 10: continue
MaxDist == 10

\* min_dist = 1000000
StartDist == 1000000

Min3(a, b, c) == IF a <= b /\ a <= c THEN a ELSE IF b <= c THEN b ELSE c

RECURSIVE distance_row(_, _, _, _, _)
\* One row of the edit distance table: the cells of the row of character c
\* of a, after prev, the row before; row holds the cells done so far.
distance_row(prev, c, b, weights, row) ==
    IF Len(row) = Len(b) + 1 THEN row
    ELSE distance_row(prev, c, b, weights,
                      Append(row, Min3(prev[Len(row) + 1] + weights[2],
                                       row[Len(row)] + weights[1],
                                       prev[Len(row)]
                                           + (IF c = b[Len(row)] THEN 0 ELSE weights[3]))))

RECURSIVE distance_rows(_, _, _, _, _)
distance_rows(a, i, b, weights, prev) ==
    IF i > Len(a) THEN prev[Len(b) + 1]
    ELSE distance_rows(a, i + 1, b, weights,
                       distance_row(prev, a[i], b, weights, <<prev[1] + weights[2]>>))

\* Levenshtein.distance(a, b, weights=weights): the least cost of turning a
\* into b.
distance(a, b, weights) ==
    distance_rows(a, 1, b, weights, [j \in 1..(Len(b) + 1) |-> (j - 1) * weights[1]])

\* The first language one of whose codes is the part, None when there is none.
exact_lang(part) ==
    With({k \in 1..Len(LANGUAGES) :
             \E j \in 1..Len(LANGUAGES[k].codes) : LANGUAGES[k].codes[j] = part},
         LAMBDA hits : IF hits = {} THEN None ELSE Some(LANGUAGES[SetMin(hits)].lang))

\* for lang in lang_keys, given the distance of every language's name: the
\* loop leaves the first of the names that are nearest, if that is within
\* MaxDist and nearer than min_dist was.  acc holds min_dist, min_lang, found
\* and is_sdh.
nearest(acc, dists) ==
    With({k \in 1..Len(dists) : dists[k] <= MaxDist /\ dists[k] < acc.min_dist},
         LAMBDA near :
            IF near = {} THEN acc
            ELSE With(CHOOSE k \in near :
                         \A j \in near : dists[k] < dists[j] \/ (dists[k] = dists[j] /\ k <= j),
                      LAMBDA k : [acc EXCEPT !.min_dist = dists[k],
                                             !.min_lang = Some(LANGUAGES[k].lang),
                                             !.found = TRUE]))

fuzzy_lang(part, acc) ==
    nearest(acc, [k \in 1..Len(LANGUAGES) |-> distance(part, LANGUAGES[k].lang, Weights)])

RECURSIVE scan_parts(_, _)
\* for part in parts
scan_parts(parts, acc) ==
    IF parts = <<>> THEN acc
    ELSE IF Head(parts) = Str("sdh") THEN scan_parts(Tail(parts), [acc EXCEPT !.is_sdh = TRUE])
    ELSE IF Len(Head(parts)) < 2 THEN scan_parts(Tail(parts), acc)
    ELSE With(exact_lang(Head(parts)),
              LAMBDA exact :
                 IF exact # None THEN [acc EXCEPT !.min_lang = exact, !.found = TRUE]
                 ELSE IF acc.found THEN acc
                 ELSE scan_parts(Tail(parts), fuzzy_lang(Head(parts), acc)))

\* LANGUAGES.get(min_lang, LANGUAGES["english"])
codes_of(min_lang) ==
    With({k \in 1..Len(LANGUAGES) : min_lang = Some(LANGUAGES[k].lang)},
         LAMBDA hits :
            IF hits = {}
            THEN LANGUAGES[CHOOSE k \in 1..Len(LANGUAGES) :
                              LANGUAGES[k].lang = Str("english")].codes
            ELSE LANGUAGES[SetMin(hits)].codes)

\* (the first code as the table has it, "en" too)
sub_code_undefaulted(min_lang) == codes_of(min_lang)[1]

\* The first code, "default" for "en".
sub_code(min_lang) ==
    IF codes_of(min_lang)[1] = Str("en") THEN Str("default") ELSE codes_of(min_lang)[1]

RECURSIVE remove_literal(_, _, _)
\* re.compile(re.escape(lit), re.IGNORECASE).sub("", s), from position i on
remove_literal(s, i, lit) ==
    IF lit = <<>> \/ i > Len(s) THEN Drop(s, i - 1)
    ELSE IF LitAt(s, i, LowerStr(lit)) THEN remove_literal(s, i + Len(lit), lit)
    ELSE <<s[i]>> \o remove_literal(s, i + 1, lit)

\* sub_name as the language detection reads it: without the video's name,
\* the separators [.\-_,;:] made spaces, in lower case, without the
\* deny-listed words.
clean_sub_name(sub, fullpath, terms) ==
    With(IF Contains(stem(sub), stem(fullpath))
         THEN remove_literal(stem(sub), 1, stem(fullpath))
         ELSE stem(sub),
         LAMBDA s :
            remove_disallowed(
                [i \in 1..Len(s) |->
                    IF s[i] \in {".", "-", "_", ",", ";", ":"} THEN " " ELSE Lower(s[i])],
                terms))

\* min_lang and is_sdh for sub_name.
detect(sub_name) ==
    IF Len(sub_name) < 2
    THEN [min_dist |-> StartDist, min_lang |-> Some(Str("english")), found |-> TRUE,
          is_sdh |-> FALSE]
    ELSE scan_parts(Split(sub_name, Str(" ")),
                    [min_dist |-> StartDist, min_lang |-> None, found |-> FALSE,
                     is_sdh |-> FALSE])

\* new_sub_name from its pieces.
format_sub_name(new_name, sub_name, acc, sub_ext) ==
    new_name \o Str(".") \o sub_code(acc.min_lang) \o Str(".")
        \o (IF Contains(sub_name, Str("forced")) THEN Str("forced.") ELSE <<>>)
        \o (IF acc.is_sdh THEN Str("sdh.") ELSE <<>>)
        \o sub_ext

\* The new name of one subtitle.
new_sub_name(sub, fullpath, new_name, terms) ==
    With(clean_sub_name(sub, fullpath, terms),
         LAMBDA sub_name :
            format_sub_name(new_name, sub_name, detect(sub_name), Drop(suffix(sub), 1)))

process_sub_names(show, new_name, terms) ==
    [i \in 1..Len(show.subtitle_paths) |->
        new_sub_name(show.subtitle_paths[i], show.fullpath, new_name, terms)]

(***************************************************************************)
(* Calls of process_sub_names                                              *)
(***************************************************************************)
\* Subtitles found for one record.
MaxSubs == 2

\* The video of the record, and the name the rename loop has built for it.
SubsFullpath == Str("A/S01E02.mkv")

NewVideoNames == {Str("A (2020) - S01E02")}

\* Subtitle paths: a code, a misspelt name with "forced" in a file that has
\* the video's name in another case, a code after "sdh", no language at all,
\* and a token that is no language with a deny-listed word.
SubtitlePaths ==
    {Str("A/S01E02.en.srt"), Str("A/Subs/s01e02_span.forced.vtt"),
     Str("A/S01E02.sdh.ger.ass"), Str("A/S01E02.srt"), Str("A/S01E02.zz.rip.srt")}

SubtitleLists == UNION {[1..n -> SubtitlePaths] : n \in 0..MaxSubs}

\* The rename loop is about to name the subtitles of a record: every path
\* has been parsed, so the deny-list is read if there is a file.
InitSubs ==
    /\ InitResolver
    /\ ~no_interact
    /\ InitMainIdle
    /\ InitRunIdle
    /\ extra_disallowed \in DisallowedFiles
    /\ remove_parts = load_remove_parts(SubsFullpath, <<>>, extra_disallowed)
    /\ path = None
    /\ parsed = None
    /\ InitPassIdle
    /\ sub_show \in {Some([NewShow(SubsFullpath, "show", Str("mkv")) EXCEPT !.subtitle_paths = l]) :
                        l \in SubtitleLists}
    /\ new_video_name \in {Some(n) : n \in NewVideoNames}
    /\ new_subs = None

\* new_subs = process_sub_names(show, new_video_name)
CallProcessSubNames ==
    /\ new_subs = None
    /\ new_subs' = Some(process_sub_names(Val(sub_show), Val(new_video_name), remove_parts))
    /\ UNCHANGED <<resolverVars, mainVars, parserVars, runVars, sub_show, new_video_name>>

SpecSubs == InitSubs /\ [][CallProcessSubNames]_vars

\* The parts of a subtitle's name in which a language is looked for: what is
\* left of the name without the video's name and the deny-listed words, in
\* lower case, cut at the separators.
NameParts(sub) ==
    With(Split(clean_sub_name(sub, Val(sub_show).fullpath, remove_parts), Str(" ")),
         LAMBDA parts : {parts[k] : k \in {k \in 1..Len(parts) :
                                              Len(parts[k]) >= 2 /\ parts[k] # Str("sdh")}})

\* The languages a subtitle's name matches: by one of their codes, or by a
\* name that a part of it is close to.
MatchedLanguages(sub) ==
    With(NameParts(sub),
         LAMBDA parts :
            {k \in 1..Len(LANGUAGES) :
                \E part \in parts :
                    \/ \E j \in 1..Len(LANGUAGES[k].codes) : LANGUAGES[k].codes[j] = part
                    \/ distance(part, LANGUAGES[k].lang, Weights) <= MaxDist})

\* The short code of the k-th language, "default" for English.
ShortCode(k) ==
    IF LANGUAGES[k].lang = Str("english") THEN Str("default") ELSE LANGUAGES[k].codes[1]

\* The names the specification allows for a subtitle.
SubtitleNames(sub) ==
    With(MatchedLanguages(sub),
         LAMBDA matched :
            {Val(new_video_name) \o Str(".") \o code \o Str(".") \o forced \o sdh
                    \o FileExtension(sub) :
                code \in IF matched = {} THEN {Str("default")}
                         ELSE {ShortCode(k) : k \in matched},
                forced \in {<<>>, Str("forced.")},
                sdh \in {<<>>, Str("sdh.")}})

\* C10: process_sub_names returns one name per subtitle path of the record,
\* in the order of the paths; the i-th name is <stem>.<code>.[forced.][sdh.]<ext>
\* with the new name of the video as its stem, the extension of the i-th
\* subtitle as its extension and, as its code, the short code of a language
\* the subtitle's name matches, "default" when that language is English or
\* when it matches none.
C10_OneNamePerSubtitle ==
    new_subs # None =>
        /\ Len(Val(new_subs)) = Len(Val(sub_show).subtitle_paths)
        /\ \A i \in 1..Len(Val(new_subs)) :
              Val(new_subs)[i] \in SubtitleNames(Val(sub_show).subtitle_paths[i])

\* Two subtitles have been named in their order: the German one for the
\* hard of hearing, then the one without a language.
C10_Witness ==
    /\ sub_show # None
    /\ Val(sub_show).subtitle_paths = <<Str("A/S01E02.sdh.ger.ass"), Str("A/S01E02.srt")>>
    /\ new_subs = Some(<<Str("A (2020) - S01E02.de.sdh.ass"),
                         Str("A (2020) - S01E02.default.srt")>>)

(***************************************************************************)
(* __main__: the directory of a featurette                                 *)
(***************************************************************************)
\* The tags a featurette can carry: featurette_tags holds them in the order
\* of the searches, whichever of them the path has.
FeaturetteTagLists ==
    {SelectSeq([k \in 1..Len(featurette_words) |-> featurette_words[k][2]],
               LAMBDA t : t \in tags) :
        tags \in SUBSET {featurette_words[k][2] : k \in 1..Len(featurette_words)}}

\* A library of one featurette of B.
FeaturetteLists ==
    {<<Record("show", "B", Some(2020), None, None, "Featurette", tags, Some(Str("t")))>> :
        tags \in FeaturetteTagLists}

\* A run in show mode without prompts.
InitFeaturette ==
    /\ InitMain
    /\ no_interact
    /\ media_type = Some("show")

MainStartFeaturette == MainDiscover(FeaturetteLists)

NextFeaturette ==
    \/ MainStartFeaturette
    \/ MainQuery
    \/ MainResolved

SpecFeaturette == InitFeaturette /\ [][NextFeaturette]_vars

\* The directory the specification gives for a set of tags.
BucketByPriority(tags) ==
    LET has(t) == \E i \in 1..Len(tags) : tags[i] = t
    IN  IF has("Behind the Scenes") \/ has("Making Of") THEN Str("behind the scenes")
        ELSE IF has("Interview") THEN Str("interview")
        ELSE IF has("Deleted Scene") THEN Str("deleted scenes")
        ELSE IF has("Extra") THEN Str("extras")
        ELSE IF has("Promo") \/ has("Teaser") THEN Str("other")
        ELSE IF has("Trailer") THEN Str("trailers")
        ELSE IF has("Webisode") THEN Str("featurettes")
        ELSE Str("other")

\* C11 as stated: the output path of a featurette lies in the directory that
\* the priority order of the specification gives for its tags: behind the
\* scenes or making of, then interview, deleted scene, extra, promo or
\* teaser, trailer, webisode; a featurette without tags goes to "other".
C11_BucketByPriority ==
    (/\ pc \in {"query", "resolved"}
     /\ queried = 1
     /\ new_path # None
     /\ shows[1].show_type = "Featurette") =>
        Contains(Val(new_path),
                 Str("/") \o BucketByPriority(shows[1].featurette_tags) \o Str("/t.mkv"))

\* The tags in the order of their priority, each with its directory.
TagPriority ==
    << <<"Behind the Scenes", "behind the scenes">>, <<"Interview", "interview">>,
       <<"Making Of", "behind the scenes">>, <<"Deleted Scene", "deleted scenes">>,
       <<"Extra", "extras">>, <<"Promo", "other">>, <<"Teaser", "other">>,
       <<"Trailer", "trailers">>, <<"Webisode", "featurettes">> >>

\* C11: the output path of a featurette lies in the directory of the first
\* tag it carries in the order behind the scenes, interview, making of (also
\* "behind the scenes"), deleted scene, extra, promo, teaser (both "other"),
\* trailer, webisode ("featurettes"); a featurette without tags goes to
\* "featurettes".
C11_BucketByFirstTag ==
    (/\ pc \in {"query", "resolved"}
     /\ queried = 1
     /\ new_path # None
     /\ shows[1].show_type = "Featurette") =>
        LET tags == shows[1].featurette_tags
            ranks == {k \in 1..Len(TagPriority) :
                         \E i \in 1..Len(tags) : tags[i] = TagPriority[k][1]}
            bucket == IF ranks = {} THEN "featurettes" ELSE TagPriority[SetMin(ranks)][2]
        IN  Contains(Val(new_path), Str("/") \o Str(bucket) \o Str("/t.mkv"))

\* A featurette tagged interview and making of has its path, under
\* "interview".
C11_Witness ==
    /\ pc \in {"query", "resolved"}
    /\ queried = 1
    /\ new_path # None
    /\ \E i \in 1..Len(shows[1].featurette_tags) : shows[1].featurette_tags[i] = "Interview"
    /\ \E i \in 1..Len(shows[1].featurette_tags) : shows[1].featurette_tags[i] = "Making Of"
    /\ Len(shows[1].featurette_tags) = 2
    /\ Contains(Val(new_path), Str("/interview/t.mkv"))

(***************************************************************************)
(* __main__: the discovery loop                                            *)
(***************************************************************************)
\* get_resolution_from_ffprobe: the label of a width, None without a probe.
get_resolution_from_ffprobe_exclusive(wh) ==
    IF wh = None THEN None
    ELSE With(Val(wh)[1],
              LAMBDA width :
                 IF width > 15360 THEN Some(Str("16K"))
                 ELSE IF width > 7680 THEN Some(Str("8K"))
                 ELSE IF width > 3840 THEN Some(Str("4K"))
                 ELSE IF width > 1920 THEN Some(Str("1080p"))
                 ELSE IF width > 1280 THEN Some(Str("720p"))
                 ELSE IF width > 854 THEN Some(Str("480p"))
                 ELSE Some(Str("SD")))

get_resolution_from_ffprobe(wh) ==
    IF wh = None THEN None
    ELSE With(Val(wh)[1],
              LAMBDA width :
                 IF width >= 15360 THEN Some(Str("16K"))
                 ELSE IF width >= 7680 THEN Some(Str("8K"))
                 ELSE IF width >= 3840 THEN Some(Str("4K"))
                 ELSE IF width >= 1920 THEN Some(Str("1080p"))
                 ELSE IF width >= 1280 THEN Some(Str("720p"))
                 ELSE IF width >= 854 THEN Some(Str("480p"))
                 ELSE Some(Str("SD")))

\* if show.resolution is None: the record with the label of the probe.
annotate_resolution(show, wh) ==
    IF show.resolution = None
    THEN [show EXCEPT !.resolution = get_resolution_from_ffprobe(wh)]
    ELSE show

\* s.find(sub): the index from 0 of the first occurrence, -1 without one.
Find(s, sub) ==
    With({i \in 0..(Len(s) - Len(sub)) : SubSeq(s, i + 1, i + Len(sub)) = sub},
         LAMBDA hits : IF hits = {} THEN -1 ELSE SetMin(hits))

EndsWith(s, suffix_) ==
    Len(s) >= Len(suffix_) /\ SubSeq(s, Len(s) - Len(suffix_) + 1, Len(s)) = suffix_

\* The walk below the directory of the video: the files that end in one of
\* the four subtitle suffixes, in the order of the walk.
collect_subtitles(files) ==
    SelectSeq(files,
              LAMBDA file : \E x \in {Str(".srt"), Str(".vtt"), Str(".ass"), Str(".mks")} :
                               EndsWith(file, x))

\* matches_name: find() is taken for its truth, and is true of every index
\* but 0.  The loop that follows does not read it.
matches_name(show) ==
    \E i \in 1..Len(show.subtitle_paths) :
        \/ Find(show.subtitle_paths[i], Val(show.title)) # 0
        \/ show.name # None /\ Find(show.subtitle_paths[i], Val(show.name)) # 0

\* season_episode: "S01", "E02", both or neither.
season_episode(show) ==
    (IF show.season = None THEN <<>> ELSE Str("S") \o Pad2(Val(show.season)))
        \o (IF show.episode = None THEN <<>> ELSE Str("E") \o Pad2(Val(show.episode)))

\* if len(show.subtitle_paths) > 1: the first path that holds season_episode,
\* as it is or in lower case, becomes the whole list.
filter_subtitles(show) ==
    IF Len(show.subtitle_paths) > 1
    THEN With({i \in 1..Len(show.subtitle_paths) :
                  \/ Find(show.subtitle_paths[i], season_episode(show)) # -1
                  \/ Find(show.subtitle_paths[i], LowerStr(season_episode(show))) # -1},
              LAMBDA hits :
                 IF hits = {} THEN show
                 ELSE [show EXCEPT !.subtitle_paths = <<show.subtitle_paths[SetMin(hits)]>>])
    ELSE show

\* The body of the discovery loop after a record has been parsed.
discover(show, wh, files) ==
    filter_subtitles([annotate_resolution(show, wh)
                         EXCEPT !.subtitle_paths = collect_subtitles(files)])

MaxWalked == 2

\* Videos the walk of the library finds, and one file that is no video.
DiscoverPaths ==
    {Str("A/S01E02.mkv"), Str("A/S01E02 1080p.mkv"), Str("A (2020)/A.mkv"), Str("A/x.txt")}

\* What ffprobe answers: nothing (no ffprobe, or it failed), or a width
\* and a height.
ProbeResults ==
    {None} \cup {Some(<<w, 1080>>) :
                    w \in {0, 853, 854, 1279, 1280, 1919, 1920, 3839, 3840, 7679, 7680,
                           15359, 15360}}

WalkedFiles ==
    {Str("A/S01E02.en.srt"), Str("A/Subs/s01e03.de.vtt"), Str("A/x A.ass"),
     Str("A (2020)/A.en.srt"), Str("A/notes.txt")}

\* The files of a walk: each file once.
WalkedLists ==
    UNION {{l \in [1..n -> WalkedFiles] : \A i, j \in 1..n : l[i] = l[j] => i = j} :
              n \in 0..MaxWalked}

\* The discovery loop is about to take a file of the library.
InitDiscover ==
    /\ InitResolver
    /\ ~no_interact
    /\ InitSubsIdle
    /\ media_type \in {Some(mt) : mt \in MediaTypes}
    /\ shows = <<>>
    /\ queried = 0
    /\ new_paths = <<>>
    /\ new_path = None
    /\ extra_disallowed = None
    /\ remove_parts = <<>>
    /\ path \in {Some(p) : p \in DiscoverPaths}
    /\ parsed = None
    /\ InitPassIdle
    /\ widthheight \in ProbeResults
    /\ probed = FALSE
    /\ walked \in WalkedLists
    /\ InitProcessIdle
    /\ InitRenameIdle

\* One pass of the body of the discovery loop: the file is parsed and, when
\* it is a video, probed if need be, given its subtitles and appended.
\* str.find(None) raises a TypeError.
Discover ==
    /\ parsed = None
    /\ pc = "idle"
    /\ LET terms == load_remove_parts(Val(path), remove_parts, extra_disallowed)
       IN  /\ remove_parts' = terms
           /\ parsed' = Some(parse_show_or_movie_path(Val(path), Val(media_type), terms))
    /\ IF Val(parsed') = None
       THEN UNCHANGED <<shows, probed, pc>>
       ELSE /\ probed' = (Val(Val(parsed')).resolution = None)
            /\ IF Val(Val(parsed')).title = None /\ Len(collect_subtitles(walked)) > 1
               THEN pc' = "crashed" /\ UNCHANGED shows
               ELSE /\ shows' = Append(shows, discover(Val(Val(parsed')), widthheight, walked))
                    /\ UNCHANGED pc
    /\ UNCHANGED <<no_interact, tmdb_genres, tmdb_not_found, tmdb_show_name_cache,
                   tmdb_movie_name_cache, tmdb_show_id_cache, tmdb_movie_id_cache,
                   tmdb_details_tv_season_cache, tmdb_details_movie_cache,
                   frame, last, selected, ncalls, media_type, queried, new_paths, new_path,
                   subsVars, extra_disallowed, path, passVars, widthheight, walked, processVars,
                   renameVars>>

SpecDiscover == InitDiscover /\ [][Discover]_vars

\* The label the specification gives for a width.
ResolutionOfWidth(width) ==
    CASE width >= 15360 -> Str("16K")
      [] width \in 7680..15359 -> Str("8K")
      [] width \in 3840..7679 -> Str("4K")
      [] width \in 1920..3839 -> Str("1080p")
      [] width \in 1280..1919 -> Str("720p")
      [] width \in 854..1279 -> Str("480p")
      [] OTHER -> Str("SD")

\* C12: a record whose path gave a resolution keeps it and ffprobe is not
\* called; a record whose path gave none is probed and, when ffprobe answers
\* with a width, takes the label of the width: 16K from 15360, 8K from 7680,
\* 4K from 3840, 1080p from 1920, 720p from 1280, 480p from 854, SD below.
C12_ResolutionFromProbe ==
    (parsed # None /\ Val(parsed) # None) =>
        /\ Len(shows) = 1
        /\ probed <=> Val(Val(parsed)).resolution = None
        /\ ~probed => shows[1].resolution = Val(Val(parsed)).resolution
        /\ (probed /\ widthheight # None) =>
              shows[1].resolution = Some(ResolutionOfWidth(Val(widthheight)[1]))

\* A width of 1920 has been probed for a path without a resolution.
C12_Witness ==
    /\ parsed # None
    /\ Val(parsed) # None
    /\ Val(Val(parsed)).resolution = None
    /\ probed
    /\ widthheight = Some(<<1920, 1080>>)
    /\ Len(shows) = 1
    /\ shows[1].resolution = Some(Str("1080p"))

\* Whether one of the paths holds the title or the name of the record.
HoldsTitleOrName(show, subs) ==
    \E i \in 1..Len(subs) :
        \/ show.title # None /\ Contains(subs[i], Val(show.title))
        \/ show.name # None /\ Contains(subs[i], Val(show.name))

\* The paths that hold the season and episode token of the record, in
\* upper or in lower case; none when the record has no season and no episode.
HoldingToken(show, subs) ==
    {i \in 1..Len(subs) :
        /\ season_episode(show) # <<>>
        /\ \/ Contains(subs[i], season_episode(show))
           \/ Contains(subs[i], LowerStr(season_episode(show)))}

\* C13: the subtitles of a discovered record are narrowed to the first path
\* that holds its season and episode token only when there are several, none
\* of them holds the title or the name of the record, and one of them holds
\* the token; in every other case the record keeps all the subtitles found.
C13_SubtitleFilter ==
    (parsed # None /\ Val(parsed) # None /\ Len(shows) = 1) =>
        LET subs == collect_subtitles(walked)
            hits == HoldingToken(shows[1], subs)
        IN  IF Len(subs) > 1 /\ ~HoldsTitleOrName(shows[1], subs) /\ hits # {}
            THEN shows[1].subtitle_paths = <<subs[SetMin(hits)]>>
            ELSE shows[1].subtitle_paths = subs

(***************************************************************************)
(* Calls of process_sub_names: the scan of the parts of one name           *)
(***************************************************************************)
\* Parts of a subtitle's name after the name of the video.
MaxTokens == 2

\* A code, a misspelt name, a second code, the English code, "sdh",
\* "forced", and a part that is close to no language.
ScanTokens ==
    {Str("sdh"), Str("fre"), Str("germa"), Str("ita"), Str("en"), Str("forced"), Str("xx")}

RECURSIVE JoinTokens(_)
JoinTokens(tokens) ==
    IF tokens = <<>> THEN <<>> ELSE Str(".") \o Head(tokens) \o JoinTokens(Tail(tokens))

\* The subtitle of the video with the tokens in its name.
ScanPaths ==
    {Str("A/S01E02") \o JoinTokens(tokens) \o Str(".srt") :
        tokens \in UNION {[1..n -> ScanTokens] : n \in 0..MaxTokens}}

\* The rename loop is about to name the one subtitle of a record.
InitScan ==
    /\ InitResolver
    /\ ~no_interact
    /\ InitMainIdle
    /\ InitParserIdle
    /\ InitRunIdle
    /\ sub_show \in {Some([NewShow(SubsFullpath, "show", Str("mkv"))
                              EXCEPT !.subtitle_paths = <<p>>]) : p \in ScanPaths}
    /\ new_video_name \in {Some(n) : n \in NewVideoNames}
    /\ new_subs = None

SpecScan == InitScan /\ [][CallProcessSubNames]_vars

\* The cleaned stem of the i-th subtitle of the record.
CleanedStem(i) ==
    clean_sub_name(Val(sub_show).subtitle_paths[i], Val(sub_show).fullpath, remove_parts)

\* C14: a subtitle whose cleaned stem has two characters or more and holds
\* the token "sdh" gets "sdh." before its extension in its new name,
\* wherever the token stands.
C14_SdhFlag ==
    new_subs # None =>
        \A i \in 1..Len(Val(new_subs)) :
            (/\ Len(CleanedStem(i)) >= 2
             /\ \E k \in 1..Len(Split(CleanedStem(i), Str(" "))) :
                   Split(CleanedStem(i), Str(" "))[k] = Str("sdh")) =>
                EndsWith(Val(new_subs)[i],
                         Str("sdh.") \o Drop(suffix(Val(sub_show).subtitle_paths[i]), 1))

\* The language a part selects on its own: that of the code it is, else the
\* nearest name within MaxDist; None when the part is not accepted.
SelectedBy(part) ==
    IF exact_lang(part) # None THEN exact_lang(part)
    ELSE fuzzy_lang(part, [min_dist |-> StartDist, min_lang |-> None, found |-> FALSE,
                           is_sdh |-> FALSE]).min_lang

\* C18: the language of a subtitle is the one its first accepted part
\* selects (a part is accepted when it is a code, or within distance 10 of a
\* language's name): no later part changes it.
C18_FirstAcceptedWins ==
    new_subs # None =>
        \A i \in 1..Len(Val(new_subs)) :
            LET parts == Split(CleanedStem(i), Str(" "))
                accepted == {k \in 1..Len(parts) :
                                /\ parts[k] # Str("sdh")
                                /\ Len(parts[k]) >= 2
                                /\ SelectedBy(parts[k]) # None}
            IN  (Len(CleanedStem(i)) >= 2 /\ accepted # {}) =>
                    LET name == Val(new_video_name) \o Str(".")
                                    \o sub_code(SelectedBy(parts[SetMin(accepted)])) \o Str(".")
                    IN  /\ Len(Val(new_subs)[i]) >= Len(name)
                        /\ Take(Val(new_subs)[i], Len(name)) = name

(***************************************************************************)
(* Claims about the name caches                                            *)
(***************************************************************************)
\* Whether the call that has just returned got a result list from the
\* catalog: it issued its search, the search was answered, and the title
\* did not become a negative lookup.
GotResultList ==
    /\ Len(Val(last).reqs) = 1
    /\ Val(last).reqs[1].ok
    /\ LastShow.title \notin tmdb_not_found

\* C19: a name cache is keyed by the title searched for: when query_show or
\* query_movie has returned a result list for a title, the cache of its
\* media type holds that list under that title.
C19_KeyedBySearchedTitle ==
    /\ (Returned("query_show") /\ GotResultList) =>
          /\ Some(LastShow.title) \in DOMAIN tmdb_show_name_cache
          /\ tmdb_show_name_cache[Some(LastShow.title)] = Val(last).ret
    /\ (Returned("query_movie") /\ GotResultList) =>
          /\ Some(LastShow.title) \in DOMAIN tmdb_movie_name_cache
          /\ tmdb_movie_name_cache[Some(LastShow.title)] = Val(last).ret

(***************************************************************************)
(* The process: arguments, cache files, exits and signals                  *)
(***************************************************************************)
\* Starts of the program in one behaviour.
MaxRuns == 3

\* The age in seconds beyond which read_cache ignores a cache file.
OneDay == 86400

\* The cache files (<name>.cache.pickle) in the order write_caches writes
\* them; cache_time.cache.pickle is the eighth.
CacheNames ==
    <<"all_genres", "tmdb_show_id", "tmdb_movie_id", "tmdb_details_tv_season",
      "tmdb_details_movie", "tmdb_movie_name", "tmdb_show_name">>

\* The global a cache file is written from and read into.
CacheOf(S, name) ==
    CASE name = "all_genres" -> S.tmdb_genres
      [] name = "tmdb_show_id" -> S.tmdb_show_id_cache
      [] name = "tmdb_movie_id" -> S.tmdb_movie_id_cache
      [] name = "tmdb_details_tv_season" -> S.tmdb_details_tv_season_cache
      [] name = "tmdb_details_movie" -> S.tmdb_details_movie_cache
      [] name = "tmdb_movie_name" -> S.tmdb_movie_name_cache
      [] name = "tmdb_show_name" -> S.tmdb_show_name_cache

\* write_caches at time t: nothing when no_caches is set; else every cache
\* gets the time t in cache_time and is dumped, and cache_time after them.
write_caches(S, nc, ct, dk, fetched, t) ==
    IF nc THEN [cache_time |-> ct, disk |-> dk]
    ELSE With([n \in {CacheNames[k] : k \in 1..Len(CacheNames)} |-> t] @@ ct,
              LAMBDA times :
                 [cache_time |-> times,
                  disk |-> [files |-> ("cache_time" :> times)
                                         @@ [n \in {CacheNames[k] : k \in 1..Len(CacheNames)} |->
                                                CacheOf(S, n)],
                            fetched_at |-> fetched]])

\* read_cache(name) at time t: {} when cache_time lacks the name, when the
\* file was written more than a day ago, and when the file cannot be read.
read_cache(name, ct, dk, t) ==
    IF name \notin DOMAIN ct THEN <<>>
    ELSE IF t - ct[name] > OneDay THEN <<>>
    ELSE IF name \in DOMAIN dk.files THEN dk.files[name]
    ELSE <<>>

\* read_cache("cache_time.cache.pickle", ignore_time=True)
read_cache_time(dk) ==
    IF "cache_time" \in DOMAIN dk.files THEN dk.files["cache_time"] ELSE <<>>

\* load_caches at time t: cache_time, then the seven caches.
load_caches(S, dk, t) ==
    With(read_cache_time(dk),
         LAMBDA ct :
            [cache_time |-> ct,
             st |-> [S EXCEPT !.tmdb_genres = read_cache("all_genres", ct, dk, t),
                              !.tmdb_show_id_cache = read_cache("tmdb_show_id", ct, dk, t),
                              !.tmdb_movie_id_cache = read_cache("tmdb_movie_id", ct, dk, t),
                              !.tmdb_details_tv_season_cache =
                                  read_cache("tmdb_details_tv_season", ct, dk, t),
                              !.tmdb_details_movie_cache =
                                  read_cache("tmdb_details_movie", ct, dk, t),
                              !.tmdb_movie_name_cache = read_cache("tmdb_movie_name", ct, dk, t),
                              !.tmdb_show_name_cache = read_cache("tmdb_show_name", ct, dk, t)]])

\* The process has been started for the first time and has registered its
\* signal handlers and write_caches with atexit; there are no cache files.
InitRuns ==
    /\ no_interact \in BOOLEAN
    /\ InitStore
    /\ pc = "launched"
    /\ frame = None
    /\ last = None
    /\ selected = <<>>
    /\ ncalls = 0
    /\ InitMainIdle
    /\ InitParserIdle
    /\ InitSubsIdle
    /\ InitDiscoverIdle
    /\ InitRenameIdle
    /\ now = 0
    /\ launches = 1
    /\ auth_key \in BOOLEAN
    /\ argv_no_cache \in BOOLEAN
    /\ no_caches = FALSE
    /\ cache_time = <<>>
    /\ disk = [files |-> <<>>, fetched_at |-> <<>>]
    /\ loaded = FALSE
    /\ fetched_at = <<>>

\* The process ends through sys.exit, the end of the script or an uncaught
\* exception: atexit runs write_caches on the caches S.
AtExit(S) ==
    /\ LET w == write_caches(S, no_caches, cache_time, disk, fetched_at, now)
       IN  cache_time' = w.cache_time /\ disk' = w.disk
    /\ pc' = "ended"

\* The key check and the arguments: without a key the process exits before
\* the arguments are read.
RunArgs ==
    /\ pc = "launched"
    /\ IF ~auth_key
       THEN AtExit(Store) /\ UNCHANGED no_caches
       ELSE no_caches' = argv_no_cache /\ pc' = "confirm" /\ UNCHANGED <<cache_time, disk>>
    /\ UNCHANGED <<no_interact, tmdb_genres, tmdb_not_found, tmdb_show_name_cache,
                   tmdb_movie_name_cache, tmdb_show_id_cache, tmdb_movie_id_cache,
                   tmdb_details_tv_season_cache, tmdb_details_movie_cache,
                   frame, last, selected, ncalls, mainVars, parserVars, subsVars,
                   discoverVars, renameVars, now, launches, auth_key, argv_no_cache, loaded, fetched_at>>

\* "OK? (Y/n, default: Y)" unless --no-interact: "n" exits.
RunConfirm ==
    /\ pc = "confirm"
    /\ IF no_interact
       THEN pc' = "load" /\ UNCHANGED <<cache_time, disk>>
       ELSE \E ok \in {"n", ""} :
               IF ok = "n" THEN AtExit(Store)
               ELSE pc' = "load" /\ UNCHANGED <<cache_time, disk>>
    /\ UNCHANGED <<no_interact, tmdb_genres, tmdb_not_found, tmdb_show_name_cache,
                   tmdb_movie_name_cache, tmdb_show_id_cache, tmdb_movie_id_cache,
                   tmdb_details_tv_season_cache, tmdb_details_movie_cache,
                   frame, last, selected, ncalls, mainVars, parserVars, subsVars,
                   discoverVars, renameVars, now, launches, auth_key, argv_no_cache, no_caches, loaded,
                   fetched_at>>

\* The checks of the media path (a path that is no directory exits), then
\* load_caches unless no_caches.
RunLoad ==
    /\ pc = "load"
    /\ \E is_dir \in BOOLEAN :
         IF ~is_dir
         THEN /\ AtExit(Store)
              /\ UNCHANGED <<tmdb_genres, tmdb_not_found, tmdb_show_name_cache,
                             tmdb_movie_name_cache, tmdb_show_id_cache, tmdb_movie_id_cache,
                             tmdb_details_tv_season_cache, tmdb_details_movie_cache,
                             loaded, fetched_at>>
         ELSE IF no_caches
         THEN /\ pc' = "work"
              /\ UNCHANGED <<tmdb_genres, tmdb_not_found, tmdb_show_name_cache,
                             tmdb_movie_name_cache, tmdb_show_id_cache, tmdb_movie_id_cache,
                             tmdb_details_tv_season_cache, tmdb_details_movie_cache,
                             loaded, fetched_at, cache_time, disk>>
         ELSE LET l == load_caches(Store, disk, now)
              IN  /\ SetStore(l.st)
                  /\ cache_time' = l.cache_time
                  /\ loaded' = TRUE
                  /\ fetched_at' = [k \in DOMAIN l.st.tmdb_show_name_cache |->
                                        disk.fetched_at[k]]
                  /\ pc' = "work"
                  /\ UNCHANGED disk
    /\ UNCHANGED <<no_interact, frame, last, selected, ncalls, mainVars, parserVars, subsVars,
                   discoverVars, renameVars, now, launches, auth_key, argv_no_cache, no_caches>>

\* A search of the resolve loop.  An exception it raises is not caught: the
\* process ends.
RunQuery ==
    /\ pc = "work"
    /\ ncalls < MaxCalls
    /\ ncalls' = ncalls + 1
    /\ \E title \in Titles :
         \E r \in query_show(Store, title, Some(2020)) :
            /\ SetStore(r.st)
            /\ fetched_at' = [k \in DOMAIN r.st.tmdb_show_name_cache |->
                                  IF k \in DOMAIN tmdb_show_name_cache THEN fetched_at[k]
                                  ELSE now]
            /\ IF r.status = "raise"
               THEN LET w == write_caches(r.st, no_caches, cache_time, disk, fetched_at', now)
                    IN  cache_time' = w.cache_time /\ disk' = w.disk /\ pc' = "ended"
               ELSE UNCHANGED <<pc, cache_time, disk>>
    /\ UNCHANGED <<no_interact, frame, last, selected, mainVars, parserVars, subsVars,
                   discoverVars, renameVars, now, launches, auth_key, argv_no_cache, no_caches, loaded>>

\* The end of the script.
RunEnd ==
    /\ pc = "work"
    /\ AtExit(Store)
    /\ UNCHANGED <<no_interact, tmdb_genres, tmdb_not_found, tmdb_show_name_cache,
                   tmdb_movie_name_cache, tmdb_show_id_cache, tmdb_movie_id_cache,
                   tmdb_details_tv_season_cache, tmdb_details_movie_cache,
                   frame, last, selected, ncalls, mainVars, parserVars, subsVars,
                   discoverVars, renameVars, now, launches, auth_key, argv_no_cache, no_caches, loaded,
                   fetched_at>>

\* handle_signal on SIGINT, SIGTERM or SIGHUP: write_caches, then sys.exit(0),
\* which runs write_caches a second time.
Signal ==
    /\ pc \in {"launched", "confirm", "load", "work"}
    /\ LET w == write_caches(Store, no_caches, cache_time, disk, fetched_at, now)
           w2 == write_caches(Store, no_caches, w.cache_time, w.disk, fetched_at, now)
       IN  cache_time' = w2.cache_time /\ disk' = w2.disk
    /\ pc' = "ended"
    /\ UNCHANGED <<no_interact, tmdb_genres, tmdb_not_found, tmdb_show_name_cache,
                   tmdb_movie_name_cache, tmdb_show_id_cache, tmdb_movie_id_cache,
                   tmdb_details_tv_season_cache, tmdb_details_movie_cache,
                   frame, last, selected, ncalls, mainVars, parserVars, subsVars,
                   discoverVars, renameVars, now, launches, auth_key, argv_no_cache, no_caches, loaded,
                   fetched_at>>

\* The program is started again, a day or a day and a second later: the
\* globals are those of the module, the cache files those that were left.
Launch ==
    /\ pc = "ended"
    /\ launches < MaxRuns
    /\ launches' = launches + 1
    /\ \E d \in {OneDay, OneDay + 1} : now' = now + d
    /\ auth_key' \in BOOLEAN
    /\ argv_no_cache' \in BOOLEAN
    /\ SetStore([tmdb_genres |-> <<>>, tmdb_not_found |-> {}, tmdb_show_name_cache |-> <<>>,
                 tmdb_movie_name_cache |-> <<>>, tmdb_show_id_cache |-> <<>>,
                 tmdb_movie_id_cache |-> <<>>, tmdb_details_tv_season_cache |-> <<>>,
                 tmdb_details_movie_cache |-> <<>>])
    /\ no_caches' = FALSE
    /\ cache_time' = <<>>
    /\ loaded' = FALSE
    /\ fetched_at' = <<>>
    /\ ncalls' = 0
    /\ pc' = "launched"
    /\ UNCHANGED <<no_interact, frame, last, selected, mainVars, parserVars, subsVars,
                   discoverVars, renameVars, disk>>

NextRuns ==
    \/ RunArgs
    \/ RunConfirm
    \/ RunLoad
    \/ RunQuery
    \/ RunEnd
    \/ Signal
    \/ Launch

SpecRuns == InitRuns /\ [][NextRuns]_vars

C20_FreshEntriesOnly ==
    pc = "work" =>
        \A k \in DOMAIN tmdb_show_name_cache : now - fetched_at[k] <= OneDay

(***************************************************************************)
(* __main__: the rename loop                                               *)
(***************************************************************************)
\* re.compile(r"[\:*?\"<>|]").sub("", new_path)
strip_reserved(s) ==
    SelectSeq(s, LAMBDA c : c \notin {":", "*", "?", "\"", "<", ">", "|"})

\* The key under which the resolve loop has put a record into new_paths.
key_of(show) ==
    IF show.media_type = "show" THEN new_path_show(show) ELSE new_path_movie(show)

\* new_paths.items() after n passes of the resolve loop over ss: a dict
\* keeps its keys in the order in which they were first inserted, each with
\* the value assigned last.
items(paths, ss, n) ==
    With({i \in 1..n : /\ key_of(ss[i]) \in DOMAIN paths
                       /\ \A j \in 1..(i - 1) : key_of(ss[j]) # key_of(ss[i])},
         LAMBDA firsts :
            [k \in 1..Cardinality(firsts) |->
                With(CHOOSE i \in firsts : Cardinality({j \in firsts : j <= i}) = k,
                     LAMBDA i : <<key_of(ss[i]), paths[key_of(ss[i])]>>)])

\* Path(p).with_suffix(sfx)
with_suffix(p, sfx) == Take(p, Len(p) - Len(suffix(p))) \o sfx

\* The file a pass of the rename loop moves a video to or, in a dry run,
\* writes.
target(new_path_, extension, dry) ==
    with_suffix(strip_reserved(new_path_),
                Str(".") \o extension \o (IF dry THEN Str(".txt") ELSE <<>>))

\* One pass of the rename loop: the next entry of new_paths is moved or, in
\* a dry run, written.  (The records of this library have no subtitles.)
MainRename ==
    /\ pc = "resolved"
    /\ renamed < Len(items(new_paths, shows, queried))
    /\ renamed' = renamed + 1
    /\ LET item == items(new_paths, shows, queried)[renamed + 1]
       IN  moves' = Append(moves, [show |-> item[2],
                                   to |-> target(item[1], shows[item[2]].extension, dry_run),
                                   written |-> dry_run])
    /\ UNCHANGED <<resolverVars, mainVars, parserVars, subsVars, discoverVars, processVars,
                   dry_run>>

\* The rename loop is through.
MainDone ==
    /\ pc = "resolved"
    /\ renamed = Len(items(new_paths, shows, queried))
    /\ pc' = "done"
    /\ UNCHANGED <<no_interact, tmdb_genres, tmdb_not_found, tmdb_show_name_cache,
                   tmdb_movie_name_cache, tmdb_show_id_cache, tmdb_movie_id_cache,
                   tmdb_details_tv_season_cache, tmdb_details_movie_cache,
                   frame, last, selected, ncalls, mainVars, parserVars, subsVars, runVars>>

\* The records of a small library: an episode of A without its year and a
\* trailer of B; or the movie A without its year (two files of it have the
\* same record but for their paths).
PipelineRecords(mt) ==
    IF mt = "show"
    THEN {Record("show", "A", None, Some(1), Some(2), "Show", <<>>, None),
          Record("show", "B", Some(2020), None, None, "Featurette", <<"Trailer">>, Some(Str("t")))}
    ELSE {Record("movie", "A", None, None, None, "Show", <<>>, None)}

\* After argument parsing: as InitMain, with --dry-run or without.
InitPipeline ==
    /\ no_interact \in BOOLEAN
    /\ InitStore
    /\ pc = "start"
    /\ frame = None
    /\ last = None
    /\ selected = <<>>
    /\ ncalls = 0
    /\ media_type \in {Some(mt) : mt \in MediaTypes}
    /\ shows = <<>>
    /\ queried = 0
    /\ new_paths = <<>>
    /\ new_path = None
    /\ InitParserIdle
    /\ InitSubsIdle
    /\ InitDiscoverIdle
    /\ InitProcessIdle
    /\ dry_run \in BOOLEAN
    /\ renamed = 0
    /\ moves = <<>>

MainStartPipeline ==
    MainDiscover(UNION {[1..n -> PipelineRecords(Val(media_type))] : n \in 1..MaxFiles})

NextPipeline ==
    \/ MainStartPipeline
    \/ MainQuery
    \/ MainTypeSelection
    \/ MainResolved
    \/ MainRename
    \/ MainDone

SpecPipeline == InitPipeline /\ [][NextPipeline]_vars

\* The records whose pass of the resolve loop is over.
ResolvedRecords ==
    IF pc \in {"start", "input", "crashed"} THEN 1..(queried - 1) ELSE 1..queried

\* Whether record i has been moved or written.
Moved(i) == \E m \in 1..Len(moves) : moves[m].show = i

\* C16 as stated: a file discovered before another is renamed before any
\* catalog request or prompt for the other.
C16_OneAtATime ==
    \A j \in 2..Len(shows) : queried >= j => \A i \in 1..(j - 1) : Moved(i)

\* C16: the files are handled in three passes: every file is discovered
\* before the first catalog request, and the resolve loop has passed over
\* every record before the first file is moved or written.
C16_ThreePasses ==
    /\ queried > 0 => pc # "start"
    /\ (renamed > 0 \/ moves # <<>>) =>
          /\ queried = Len(shows)
          /\ pc \in {"resolved", "done"}
          /\ ResolvedRecords = 1..Len(shows)

\* Two files have been resolved and then both moved.
C16_Witness ==
    /\ pc = "done"
    /\ Len(shows) = 2
    /\ queried = 2
    /\ Len(moves) = 2
    /\ Moved(1)
    /\ Moved(2)

\* C17: when two records have got the same output path, new_paths holds the
\* later of them under that path, and the earlier is never moved or written.
C17_LastWriteWins ==
    \A i \in ResolvedRecords : \A j \in ResolvedRecords :
        (i < j /\ key_of(shows[i]) = key_of(shows[j])) =>
            /\ key_of(shows[i]) \in DOMAIN new_paths
            /\ new_paths[key_of(shows[i])] # i
            /\ \A k \in ResolvedRecords :
                  key_of(shows[k]) = key_of(shows[i]) => new_paths[key_of(shows[i])] >= k
            /\ ~Moved(i)

\* Two records had the same output path; the rename loop is through and has
\* moved the second only.
C17_Witness ==
    /\ pc = "done"
    /\ Len(shows) = 2
    /\ key_of(shows[1]) = key_of(shows[2])
    /\ Len(moves) = 1
    /\ moves[1].show = 2

(***************************************************************************)
(* Calls of process_sub_names: the fuzzy fallback                          *)
(***************************************************************************)
\* Parts that are no code of any language: a name, a name cut short, a name
\* with a wrong letter, a name with a letter too many, two more names cut
\* short, a part that is as near to two names, a part near to no name, a
\* name with a wrong last letter, a name in full.
FuzzyTokens ==
    {Str("spanish"), Str("span"), Str("spanisk"), Str("spanishh"), Str("germa"),
     Str("dani"), Str("engl"), Str("xx"), Str("hindo"), Str("irish")}

FuzzyPaths == {Str("A/S01E02.") \o t \o Str(".srt") : t \in FuzzyTokens}

\* The rename loop is about to name the subtitles of a record, each with one
\* part after the name of the video.
InitFuzzy ==
    /\ InitResolver
    /\ ~no_interact
    /\ InitMainIdle
    /\ InitParserIdle
    /\ InitRunIdle
    /\ sub_show \in {Some([NewShow(SubsFullpath, "show", Str("mkv"))
                              EXCEPT !.subtitle_paths = l]) :
                        l \in UNION {[1..n -> FuzzyPaths] : n \in 1..MaxSubs}}
    /\ new_video_name \in {Some(n) : n \in NewVideoNames}
    /\ new_subs = None

SpecFuzzy == InitFuzzy /\ [][CallProcessSubNames]_vars

RECURSIVE IsSubsequence(_, _)
\* Whether b can be made from a by insertions alone.
IsSubsequence(a, b) ==
    IF a = <<>> THEN TRUE
    ELSE IF b = <<>> THEN FALSE
    ELSE IF Head(a) = Head(b) THEN IsSubsequence(Tail(a), Tail(b))
    ELSE IsSubsequence(a, Tail(b))

\* The number of characters to insert into the part to make the k-th
\* language's name, None when insertions alone do not make it.
Insertions(part) ==
    [k \in 1..Len(LANGUAGES) |->
        IF IsSubsequence(part, LANGUAGES[k].lang)
        THEN Some(Len(LANGUAGES[k].lang) - Len(part)) ELSE None]

\* The number of characters to replace in the part to make the k-th
\* language's name, None when replacements alone do not make it.
Substitutions(part) ==
    [k \in 1..Len(LANGUAGES) |->
        IF Len(LANGUAGES[k].lang) = Len(part)
        THEN Some(Cardinality({j \in 1..Len(part) : part[j] # LANGUAGES[k].lang[j]}))
        ELSE None]

\* The languages within MaxDist, and the nearest of them.
Within(dists) == {k \in 1..Len(dists) : dists[k] # None /\ Val(dists[k]) <= MaxDist}

Nearest(dists) ==
    {k \in Within(dists) : \A j \in Within(dists) : Val(dists[k]) <= Val(dists[j])}

\* The names of a subtitle whose language is one of the nearest, "default"
\* when no language is within MaxDist.
NearestNames(i, dists) ==
    {Val(new_video_name) \o Str(".") \o code \o Str(".")
            \o Drop(suffix(Val(sub_show).subtitle_paths[i]), 1) :
        code \in IF Within(dists) = {} THEN {Str("default")}
                 ELSE {ShortCode(k) : k \in Nearest(dists)}}

\* The part of the i-th subtitle's name the fuzzy fallback decides on: the
\* only part of its name, when that is no code of any language.
FuzzyParts(i) ==
    With(NameParts(Val(sub_show).subtitle_paths[i]),
         LAMBDA parts :
            {p \in parts :
                /\ parts = {p}
                /\ \A k \in 1..Len(LANGUAGES) :
                      \A j \in 1..Len(LANGUAGES[k].codes) : LANGUAGES[k].codes[j] # p})

\* C21 as stated: the fuzzy fallback weighs a substitution 1, an insertion
\* 20 and a deletion 100, accepts a language within distance 10 and keeps a
\* nearest one.  (With these weights a name is within 10 of a part exactly
\* when it has the part's length, and its distance is the number of
\* characters that differ.)
C21_SubstitutionWeights ==
    new_subs # None =>
        \A i \in 1..Len(Val(new_subs)) :
            \A p \in FuzzyParts(i) : Val(new_subs)[i] \in NearestNames(i, Substitutions(p))

\* C21, amended: the fuzzy fallback weighs an insertion 1, a deletion 20 and
\* a substitution 100 (of turning the part into the language's name),
\* accepts a language within distance 10 and keeps a nearest one; a part
\* that is a language's name selects it at distance 0.  (With these weights
\* a name is within 10 of a part exactly when at most 10 insertions make it
\* from the part, and its distance is their number.)
C21_InsertionWeights ==
    new_subs # None =>
        \A i \in 1..Len(Val(new_subs)) :
            \A p \in FuzzyParts(i) : Val(new_subs)[i] \in NearestNames(i, Insertions(p))

\* Two subtitles have been named by the fallback: one with the name of a
\* language cut short, one with the name in full.
C21_Witness ==
    /\ sub_show # None
    /\ Val(sub_show).subtitle_paths = <<Str("A/S01E02.span.srt"), Str("A/S01E02.spanish.srt")>>
    /\ FuzzyParts(1) = {Str("span")}
    /\ FuzzyParts(2) = {Str("spanish")}
    /\ new_subs = Some(<<Str("A (2020) - S01E02.es.srt"), Str("A (2020) - S01E02.es.srt")>>)

(***************************************************************************)
(* Calls of parse_show_or_movie_path, pass by pass of its loop             *)
(***************************************************************************)
\* One pass of "while len(parts) > 0": the parts left and the loop's state
\* after it.  A part with dashes is replaced by its pieces, an empty part is
\* dropped, any other part goes through the regular expressions.
parse_pass(parts, st, terms) ==
    With(remove_disallowed_chars(replace_separators_with_spaces(Head(parts))),
         LAMBDA part :
            With(split_dash(part),
                 LAMBDA subparts :
                    IF Len(subparts) > 1
                    THEN [parts |-> subparts \o Tail(parts), st |-> st]
                    ELSE With(remove_disallowed(remove_removed(part, st.removed_parts), terms),
                              LAMBDA cleaned :
                                 IF cleaned = <<>> THEN [parts |-> Tail(parts), st |-> st]
                                 ELSE [parts |-> Tail(parts),
                                       st |-> take_title_or_name(
                                                  take_all([st EXCEPT !.part = cleaned]),
                                                  Len(parts) = 1, terms)])))

\* Videos in a directory, in a season's directory, and in a season's
\* directory that has a year and a resolution of its own; with an episode
\* of another season, with a resolution, with a year, with dashes, with a
\* season alone; and a file that is no video.
PassDirs == {Str("A/"), Str("A/Season 1/"), Str("A (2020)/Season 1 720p/")}

PassStems ==
    {Str("x"), Str("S02E03"), Str("A S01E02 1080p"), Str("S01E02 (2019) 4k"),
     Str("A - S01E02 - x"), Str("Season 2")}

PassPaths == {d \o s \o Str(".mkv") : d \in PassDirs, s \in PassStems} \cup {Str("A/x.srt")}

\* The discovery loop is about to hand over a path.
InitPasses ==
    /\ InitResolver
    /\ InitSubsIdle
    /\ InitRunIdle
    /\ media_type \in {Some(mt) : mt \in MediaTypes}
    /\ shows = <<>>
    /\ queried = 0
    /\ new_paths = <<>>
    /\ new_path = None
    /\ extra_disallowed \in DisallowedFiles
    /\ remove_parts \in {<<>>, load_remove_parts(Str("x.mkv"), <<>>, extra_disallowed)}
    /\ path \in {Some(p) : p \in PassPaths}
    /\ parsed = None
    /\ InitPassIdle

\* The call, up to the loop: a file that is no video returns None at once.
ParseEnter ==
    /\ parsed = None
    /\ pass_state = None
    /\ remove_parts' = load_remove_parts(Val(path), remove_parts, extra_disallowed)
    /\ IF IsVideo(Val(path))
       THEN /\ parts_left' = Split(strip_extension(Val(path), Drop(suffix(Val(path)), 1)),
                                   Str("/"))
            /\ pass_state' = Some([part |-> <<>>, removed_parts |-> <<>>, first |-> TRUE,
                                   resolution |-> None,
                                   show |-> NewShow(Val(path), Val(media_type),
                                                    Drop(suffix(Val(path)), 1))])
            /\ UNCHANGED parsed
       ELSE parsed' = Some(None) /\ UNCHANGED passVars
    /\ UNCHANGED <<resolverVars, mainVars, subsVars, runVars, extra_disallowed, path>>

\* One pass of the loop.
ParsePass ==
    /\ parsed = None
    /\ pass_state # None
    /\ parts_left # <<>>
    /\ LET r == parse_pass(parts_left, Val(pass_state), remove_parts)
       IN  parts_left' = r.parts /\ pass_state' = Some(r.st)
    /\ UNCHANGED <<resolverVars, mainVars, subsVars, runVars, remove_parts, extra_disallowed,
                   path, parsed>>

\* After the loop: the tags of a featurette, and "return show".
ParseReturn ==
    /\ parsed = None
    /\ pass_state # None
    /\ parts_left = <<>>
    /\ parsed' = Some(Some(
           IF Val(pass_state).show.show_type = "Featurette"
           THEN [Val(pass_state).show EXCEPT
                    !.featurette_tags =
                        featurette_tags_of(strip_extension(Val(path), Drop(suffix(Val(path)), 1)))]
           ELSE Val(pass_state).show))
    /\ UNCHANGED <<resolverVars, mainVars, subsVars, runVars, remove_parts, extra_disallowed,
                   path, passVars>>

NextPasses == ParseEnter \/ ParsePass \/ ParseReturn

SpecPasses == InitPasses /\ [][NextPasses]_vars

\* The fields the loop extracts while they are unset.
ExtractedFields == {"year", "season", "episode", "resolution"}

\* C22: during the extraction of one path, a pass of the loop never changes
\* the year, the season, the episode or the resolution of the record once
\* an earlier pass has set it.
C22_SetOnce ==
    [][\A f \in ExtractedFields :
          (pass_state # None /\ Val(pass_state).show[f] # None) =>
              (pass_state' # None /\ Val(pass_state').show[f] = Val(pass_state).show[f])]_vars

(***************************************************************************)
(* Claims about exits before load_caches                                   *)
(***************************************************************************)
\* C23: a process that ends before it has called load_caches (no key, the
\* operator's "n", a media path that is no directory) touches no file: the
\* cache files are as they were when it was started.
C23_EarlyExitKeepsFiles ==
    [][(pc \in {"launched", "confirm", "load"} /\ ~loaded /\ pc' = "ended") => disk' = disk]_vars

(***************************************************************************)
(* Claims about the id caches                                              *)
(***************************************************************************)
\* Whether the call of query_tmdb_id that has just returned took its id from
\* a memo: it returned an id without selecting one.
ReturnedMemo == Returned("query_tmdb_id") /\ Val(last).ret # None /\ Val(last).stored = None

\* C25: the id caches are separated by media kind: an id that query_tmdb_id
\* returns from a memo for a movie record was memoized by a call for a movie
\* of that title, never by one for a show of the same title; and likewise
\* for a show record.
C25_IdCachesByKind ==
    ReturnedMemo => Val(last).first # None /\ Val(last).ret = Val(last).first

(***************************************************************************)
(* __main__: the resolve loop over the seasons of one show                 *)
(***************************************************************************)
\* Episodes discovered in one run.
MaxEpisodes == 3

\* An episode of season 1 and an episode of season 2 of A.
SeasonRecords ==
    {Record("show", "A", Some(2020), Some(1), Some(2), "Show", <<>>, None),
     Record("show", "A", Some(2020), Some(2), Some(2), "Show", <<>>, None)}

SeasonLists == UNION {[1..n -> SeasonRecords] : n \in 1..MaxEpisodes}

\* After argument parsing, in show mode.
InitSeasons == InitMain /\ media_type = Some("show")

MainStartSeasons == MainDiscover(SeasonLists)

NextSeasons ==
    \/ MainStartSeasons
    \/ MainQuery
    \/ MainTypeSelection
    \/ MainResolved

SpecSeasons == InitSeasons /\ [][NextSeasons]_vars

\* Whether the details cached for the season of a record carry no id (the
\* request for the show had failed when they were fetched).
CachedWithoutId(show) ==
    /\ SeasonKey(show) \in DOMAIN tmdb_details_tv_season_cache
    /\ tmdb_details_tv_season_cache[SeasonKey(show)].show_id = None

\* C24 as stated: in show mode, once a record of a title has received a
\* catalog id, every later record of that title, of any season, receives
\* the same id and is never left without one.
C24_StablePerTitle ==
    \A i, j \in ResolvedRecords :
        (i < j /\ shows[i].title = shows[j].title /\ shows[i].tmdb_id # None) =>
            shows[j].tmdb_id = shows[i].tmdb_id

\* C24, amended: in show mode, once a record of a title has received a
\* catalog id, no later record of that title receives another id: it
\* receives the same id or none, and none only if the title has entered
\* tmdb_not_found (a season request for it failed) or the details cached for
\* its season carry no id.
C24_SameIdOrNone ==
    \A i, j \in ResolvedRecords :
        (i < j /\ shows[i].title = shows[j].title /\ shows[i].tmdb_id # None) =>
            /\ shows[j].tmdb_id \in {None, shows[i].tmdb_id}
            /\ shows[j].tmdb_id = None =>
                  shows[j].title \in tmdb_not_found \/ CachedWithoutId(shows[j])

\* Three episodes have been resolved: the first, of season 1, got its id;
\* the request for season 2 failed for the second; the third, of season 1
\* again, is left without an id although its season's details are cached.
C24_Witness ==
    /\ pc = "resolved"
    /\ Len(shows) = 3
    /\ shows[1].season = Some(1) /\ shows[1].tmdb_id # None
    /\ shows[2].season = Some(2) /\ shows[2].tmdb_id = None
    /\ shows[3].season = Some(1) /\ shows[3].tmdb_id = None
    /\ "A" \in tmdb_not_found
    /\ SeasonKey(shows[3]) \in DOMAIN tmdb_details_tv_season_cache
    /\ ~CachedWithoutId(shows[3])

=============================================================================
